---- MODULE Spec2Model ----
(***************************************************************************)
(* Live-response synchronisation of the control UI: the chat event router  *)
(* (handleChatEvent), the per-session stream throttle                      *)
(* (scheduleChatStreamSync / syncChatStreamBuffer / flushChatStream /      *)
(* clearChatStreamThrottle), run creation (sendChatMessage), session       *)
(* switching (switchSession, the session selector) and the stall           *)
(* heartbeat (handleChatHeartbeat / checkChatStreamTimeout).               *)
(*                                                                         *)
(* Nullable values are options: None is null, Some(v) is the value v.      *)
(* Texts are sequences of characters; times are milliseconds.              *)
(***************************************************************************)
EXTENDS Integers, Sequences, FiniteSets, TLC

VARIABLES
  connected,            \* host.connected
  tab,                  \* host.tab
  sessionKey,           \* state.sessionKey
  chatRunId,            \* state.chatRunId           (option of run id)
  chatStream,           \* state.chatStream          (option of text)
  chatStreamSegments,   \* state.chatStreamSegments  (option of array of texts)
  chatStreamStartedAt,  \* state.chatStreamStartedAt (option of Date.now() value)
  lastError,            \* state.lastError           (option of string)
  chatSending,          \* state.chatSending
  throttleStates,       \* module-level Map sessionKey -> ChatStreamThrottleState
  timers,               \* window.setTimeout callbacks that are scheduled: [id, sk, due]
  now,                  \* performance.now(), ms
  sendReqs,             \* chat.send requests awaiting their reply (run ids)
  histReqs,             \* chat.history requests awaiting their reply (count)
  lastHeartbeat,        \* time of the last setInterval heartbeat callback
  _target,              \* typewriter directive: this._target (text)
  _revealed,            \* this._revealed
  _element,             \* this._element is set (TRUE) or null (FALSE)
  _raf,                 \* this._raf (option of animation frame id)
  _lastMdRender,        \* this._lastMdRender
  isConnected,          \* AsyncDirective.isConnected
  innerHTML,            \* the element's innerHTML: the renderer and what it rendered
  frames,               \* requestAnimationFrame callbacks that are pending (ids)
  chatQueue,            \* host.chatQueue (array of queued messages, by id)
  pendingSends,         \* sendChatMessageNow calls awaiting sendChatMessage: [rid, item]
  sessionsLoading,      \* state.sessionsLoading
  sessionsResult,       \* state.sessionsResult (option of a sessions.list result)
  sessionsError,        \* state.sessionsError (option of string)
  sessReqs,             \* sessions.* requests awaiting their reply: [method, caller]
  last,                 \* observer: the operation that produced this state
  accepted,             \* observer: the text of the run's last accepted ingest
  burst,                \* observer: a burst of delta ingests in one throttle window
  pendingSince,         \* observer: when the oldest uncommitted ingest was accepted
  reloads,              \* observer: history reloads by the heartbeat since the run started
  hist,                 \* observer: the accepted ingests and the commits of the throttle
  queued,               \* observer: every message put into chatQueue, in order
  delivered,            \* observer: the queued messages whose send succeeded, in order
  appends               \* observer: the updates of the directive so far, if each strictly
                        \* extended the target before it (counted up to 2); None if not

vars == <<connected, tab, sessionKey, chatRunId, chatStream, chatStreamSegments,
          chatStreamStartedAt, lastError, chatSending, throttleStates, timers,
          now, sendReqs, histReqs, lastHeartbeat, _target, _revealed, _element,
          _raf, _lastMdRender, isConnected, innerHTML, frames, chatQueue,
          pendingSends, sessionsLoading, sessionsResult, sessionsError, sessReqs,
          last, accepted, burst, pendingSince, reloads, hist, queued, delivered,
          appends>>

hostVars == <<connected, tab>>
runVars == <<chatRunId, chatStream, chatStreamSegments, chatStreamStartedAt>>
throttleVars == <<throttleStates, timers>>
twVars == <<_target, _revealed, _element, _raf, _lastMdRender, isConnected, innerHTML,
            frames>>
queueVars == <<chatQueue, pendingSends, queued, delivered>>
sessVars == <<sessionsLoading, sessionsResult, sessionsError, sessReqs>>
appVars == <<queueVars, sessVars>>

----
\* Program constants.
CHAT_STREAM_THROTTLE_MS == 50
CHAT_STREAM_TIMEOUT_MS == 60000
CHAT_HEARTBEAT_INTERVAL_MS == 10000
CHARS_PER_FRAME == 12
CATCH_UP_THRESHOLD == 200
CATCH_UP_MULTIPLIER == 4
MD_RENDER_INTERVAL_MS == 300

\* Bounds of the model.
MaxTextLen == 2        \* longest delta text
BurstLen == 5          \* number of ingests of the observed burst (SpecBurst)
TimeStep == 25         \* granularity of the clock, ms
MaxNow == 50           \* the clock of Spec and SpecSwitch stops here
MaxNowTiming == 125    \* the clock of SpecBurst and SpecOnTime stops here
MaxInFlight == 1       \* chat.send / chat.history requests in flight
DateOrigin == 1000     \* Date.now() when performance.now() is 0
HeartbeatStep == 5000  \* granularity of the clock in SpecHB, ms
MaxNowHB == 90000      \* the clock of SpecHB stops here
MaxTargetLen == 201    \* longest text bound to the typewriter directive
RevealStep == 150      \* granularity of the clock in SpecReveal, ms
MaxNowReveal == 450    \* the clock of SpecReveal stops here
MaxSegments == 3       \* longest segments array given to renderStreamingGroup
MaxQueued == 2         \* messages put into chatQueue in one behaviour

None == <<>>
Some(v) == <<v>>

\* The label of a step: the operation, an argument of it, what it returned, and
\* the throttle context it found (PreOf).
Label(op, arg, ret, pre) == [op |-> op, arg |-> arg, ret |-> ret, pre |-> pre]

\* hist before any ingest: the text of the last accepted ingest (latest), how many
\* ingests were accepted since the throttle or a flush last changed chatStream
\* (waiting, counted up to 2),
\* and the times of the throttle's last change of chatStream and of the one before
\* it, ever (at, prev) and since the context was last cleared (atSinceClear,
\* prevSinceClear).
NoHist ==
  [latest |-> None, waiting |-> 0, at |-> None, prev |-> None,
   atSinceClear |-> None, prevSinceClear |-> None]

Sessions == {"main", "other"}
RunIds == {"A", "B"}

\* "a".repeat(n)
Rep(n) == [i \in 1..n |-> "a"]
\* Delta texts: "", "a", "aa", ... up to MaxTextLen characters, and "b".
Texts == {Rep(n) : n \in 0..MaxTextLen} \cup {<<"b">>}
\* payload.segments when it is an array.
SegmentArrays == {<<Rep(1), Rep(1)>>}

DateNow == DateOrigin + now

\* ChatEventPayload; message is extractText(payload.message): None when it is no
\* string. A field the branch of its state never reads is None.
PayloadRunIds == {None} \cup {Some(r) : r \in RunIds}
DeltaPayloads(texts, segs) ==
  [runId : PayloadRunIds, sessionKey : Sessions, state : {"delta"},
   message : {Some(t) : t \in texts}, segments : segs, errorMessage : {None}]
BarePayloads(states) ==
  [runId : PayloadRunIds, sessionKey : Sessions, state : states,
   message : {None}, segments : {None}, errorMessage : {None}]
ErrorPayloads ==
  [runId : PayloadRunIds, sessionKey : Sessions, state : {"error"},
   message : {None}, segments : {None}, errorMessage : {None, Some("boom")}]
Payloads ==
  DeltaPayloads(Texts, {None} \cup {Some(s) : s \in SegmentArrays})
    \cup BarePayloads({"delta", "final", "aborted"}) \cup ErrorPayloads

----
\* The part of the program state the chat controller's functions read and write.
Cur ==
  [chatRunId |-> chatRunId, chatStream |-> chatStream,
   chatStreamSegments |-> chatStreamSegments,
   chatStreamStartedAt |-> chatStreamStartedAt, lastError |-> lastError,
   throttleStates |-> throttleStates, timers |-> timers, ret |-> "void"]

NewThrottleState ==
  [buffer |-> None, segmentsBuffer |-> None, pendingSync |-> None, lastSyncTime |-> 0]

\* getThrottleState: the entry of sk, created when absent.
getThrottleState(h, sk) ==
  IF h.throttleStates[sk] = None
  THEN [h EXCEPT !.throttleStates[sk] = Some(NewThrottleState)]
  ELSE h

TsOf(h, sk) == h.throttleStates[sk][1]

\* window.setTimeout's return value: an id no scheduled timer has.
NewTimerId(ts) ==
  CHOOSE i \in 1..(Cardinality(ts) + 1) : \A tm \in ts : tm.id # i

\* window.clearTimeout(id)
clearTimeout(ts, id) == {tm \in ts : tm.id # id}

\* Mutant: the time of the sync is not recorded.
syncChatStreamBuffer_NoStamp(h, sk) ==
  LET ts == TsOf(h, sk)
  IN IF ts.buffer # None /\ ts.buffer # h.chatStream
     THEN [h EXCEPT !.chatStream = ts.buffer,
                    !.chatStreamSegments = ts.segmentsBuffer]
     ELSE h

\* Mutant: a sync that installs a text also restarts the run's clock.
syncChatStreamBuffer_Restamps(h, sk) ==
  LET ts == TsOf(h, sk)
      h1 == [h EXCEPT !.throttleStates[sk] = Some([ts EXCEPT !.lastSyncTime = now])]
  IN IF ts.buffer # None /\ ts.buffer # h.chatStream
     THEN [h1 EXCEPT !.chatStream = ts.buffer,
                     !.chatStreamSegments = ts.segmentsBuffer,
                     !.chatStreamStartedAt = Some(DateNow)]
     ELSE h1

syncChatStreamBuffer(h, sk) ==
  LET ts == TsOf(h, sk)
      h1 == [h EXCEPT !.throttleStates[sk] = Some([ts EXCEPT !.lastSyncTime = now])]
  IN IF ts.buffer # None /\ ts.buffer # h.chatStream
     THEN [h1 EXCEPT !.chatStream = ts.buffer,
                     !.chatStreamSegments = ts.segmentsBuffer]
     ELSE h1

\* Mutant: no throttle, every ingest is synced at once.
scheduleChatStreamSync_NoThrottle(h, sk) == syncChatStreamBuffer(h, sk)

\* Mutant: the "already scheduled" early return is missing.
scheduleChatStreamSync_NoGuard(h, sk) ==
  LET ts == TsOf(h, sk)
      elapsed == now - ts.lastSyncTime
      delay == CHAT_STREAM_THROTTLE_MS - elapsed
      id == NewTimerId(h.timers)
  IN IF elapsed >= CHAT_STREAM_THROTTLE_MS
     THEN syncChatStreamBuffer(h, sk)
     ELSE [h EXCEPT !.throttleStates[sk] = Some([ts EXCEPT !.pendingSync = Some(id)]),
                    !.timers = @ \cup {[id |-> id, sk |-> sk, due |-> now + delay]}]

\* Mutant: the delay adds the elapsed time instead of subtracting it.
scheduleChatStreamSync_LongDelay(h, sk) ==
  LET ts == TsOf(h, sk)
      elapsed == now - ts.lastSyncTime
      delay == CHAT_STREAM_THROTTLE_MS + elapsed
      id == NewTimerId(h.timers)
  IN IF ts.pendingSync # None
     THEN h
     ELSE IF elapsed >= CHAT_STREAM_THROTTLE_MS
          THEN syncChatStreamBuffer(h, sk)
          ELSE [h EXCEPT !.throttleStates[sk] = Some([ts EXCEPT !.pendingSync = Some(id)]),
                         !.timers = @ \cup {[id |-> id, sk |-> sk, due |-> now + delay]}]

\* Mutant: the elapsed time is tested before the "already scheduled" return.
scheduleChatStreamSync_ElapsedFirst(h, sk) ==
  LET ts == TsOf(h, sk)
      elapsed == now - ts.lastSyncTime
      delay == CHAT_STREAM_THROTTLE_MS - elapsed
      id == NewTimerId(h.timers)
  IN IF elapsed >= CHAT_STREAM_THROTTLE_MS
     THEN syncChatStreamBuffer(h, sk)
     ELSE IF ts.pendingSync # None
          THEN h
          ELSE [h EXCEPT !.throttleStates[sk] = Some([ts EXCEPT !.pendingSync = Some(id)]),
                         !.timers = @ \cup {[id |-> id, sk |-> sk, due |-> now + delay]}]

scheduleChatStreamSync(h, sk) ==
  LET ts == TsOf(h, sk)
      elapsed == now - ts.lastSyncTime
      delay == CHAT_STREAM_THROTTLE_MS - elapsed
      id == NewTimerId(h.timers)
  IN IF ts.pendingSync # None
     THEN h
     ELSE IF elapsed >= CHAT_STREAM_THROTTLE_MS
          THEN syncChatStreamBuffer(h, sk)
          ELSE [h EXCEPT !.throttleStates[sk] = Some([ts EXCEPT !.pendingSync = Some(id)]),
                         !.timers = @ \cup {[id |-> id, sk |-> sk, due |-> now + delay]}]

\* The callback scheduleChatStreamSync hands to setTimeout.
timerCallback(h, sk) ==
  LET ts == TsOf(h, sk)
  IN syncChatStreamBuffer(
       [h EXCEPT !.throttleStates[sk] = Some([ts EXCEPT !.pendingSync = None])], sk)

\* Mutant: the scheduled timer is forgotten, not cancelled.
flushChatStream_KeepsTimer(h) ==
  LET h0 == getThrottleState(h, sessionKey)
      ts0 == TsOf(h0, sessionKey)
  IN IF ts0.buffer # None
     THEN [h0 EXCEPT !.chatStream = ts0.buffer,
                     !.chatStreamSegments = ts0.segmentsBuffer,
                     !.throttleStates[sessionKey] =
                        Some([ts0 EXCEPT !.buffer = None, !.segmentsBuffer = None,
                                         !.pendingSync = None])]
     ELSE [h0 EXCEPT !.throttleStates[sessionKey] = Some([ts0 EXCEPT !.pendingSync = None])]

flushChatStream(h) ==
  LET h0 == getThrottleState(h, sessionKey)
      ts0 == TsOf(h0, sessionKey)
      h1 == IF ts0.pendingSync # None
            THEN [h0 EXCEPT !.timers = clearTimeout(@, ts0.pendingSync[1]),
                            !.throttleStates[sessionKey] =
                               Some([ts0 EXCEPT !.pendingSync = None])]
            ELSE h0
      ts1 == TsOf(h1, sessionKey)
  IN IF ts1.buffer # None
     THEN [h1 EXCEPT !.chatStream = ts1.buffer,
                     !.chatStreamSegments = ts1.segmentsBuffer,
                     !.throttleStates[sessionKey] =
                        Some([ts1 EXCEPT !.buffer = None, !.segmentsBuffer = None])]
     ELSE h1

\* Mutant: no monotonic-growth guard.
acceptsText_Always(h, text) == TRUE

\* The guard of handleChatEvent's delta branch and of updateChatStreamFromAssistantText:
\* !current || text.length >= current.length, with current = state.chatStream ?? "".
acceptsText(h, text) ==
  LET current == IF h.chatStream = None THEN <<>> ELSE h.chatStream[1]
  IN Len(current) = 0 \/ Len(text) >= Len(current)

updateChatStreamFromAssistantText(h, text) ==
  IF acceptsText(h, text)
  THEN LET h0 == getThrottleState(h, sessionKey)
           ts == TsOf(h0, sessionKey)
       IN scheduleChatStreamSync(
            [h0 EXCEPT !.throttleStates[sessionKey] = Some([ts EXCEPT !.buffer = Some(text)])],
            sessionKey)
  ELSE h

\* Mutant: the entry is deleted and its timer left scheduled.
clearChatStreamThrottle_NoCancel(h, sk) ==
  IF h.throttleStates[sk] # None THEN [h EXCEPT !.throttleStates[sk] = None] ELSE h

clearChatStreamThrottle(h, sk) ==
  IF h.throttleStates[sk] # None
  THEN LET ts == TsOf(h, sk)
       IN [h EXCEPT !.timers = IF ts.pendingSync # None
                               THEN clearTimeout(@, ts.pendingSync[1]) ELSE @,
                    !.throttleStates[sk] = None]
  ELSE h

\* Mutant: a run exactly CHAT_STREAM_TIMEOUT_MS old already counts as stalled.
checkChatStreamTimeout_AtLeast ==
  IF chatRunId = None \/ chatStreamStartedAt = None \/ chatStreamStartedAt = Some(0)
  THEN FALSE
  ELSE DateNow - chatStreamStartedAt[1] >= CHAT_STREAM_TIMEOUT_MS

checkChatStreamTimeout ==
  IF chatRunId = None \/ chatStreamStartedAt = None \/ chatStreamStartedAt = Some(0)
  THEN FALSE
  ELSE DateNow - chatStreamStartedAt[1] > CHAT_STREAM_TIMEOUT_MS

\* Mutant: a text waiting for its timer is not overwritten by a later one.
handleDelta_FirstWins(h, pl) ==
  IF pl.message # None /\ acceptsText(h, pl.message[1])
  THEN LET h0 == getThrottleState(h, sessionKey)
           ts == TsOf(h0, sessionKey)
       IN IF ts.pendingSync # None
          THEN h0
          ELSE scheduleChatStreamSync(
                 [h0 EXCEPT !.throttleStates[sessionKey] =
                    Some([ts EXCEPT !.buffer = pl.message, !.segmentsBuffer = pl.segments])],
                 sessionKey)
  ELSE h

\* Mutant: the delta branch has no monotonic-growth guard.
handleDelta_NoGuard(h, pl) ==
  IF pl.message # None
  THEN LET h0 == getThrottleState(h, sessionKey)
           ts == TsOf(h0, sessionKey)
       IN scheduleChatStreamSync(
            [h0 EXCEPT !.throttleStates[sessionKey] =
               Some([ts EXCEPT !.buffer = pl.message, !.segmentsBuffer = pl.segments])],
            sessionKey)
  ELSE h

\* handleChatEvent's delta branch.
handleDelta(h, pl) ==
  IF pl.message # None /\ acceptsText(h, pl.message[1])
  THEN LET h0 == getThrottleState(h, sessionKey)
           ts == TsOf(h0, sessionKey)
       IN scheduleChatStreamSync(
            [h0 EXCEPT !.throttleStates[sessionKey] =
               Some([ts EXCEPT !.buffer = pl.message, !.segmentsBuffer = pl.segments])],
            sessionKey)
  ELSE h

\* Mutant: final clears the run as aborted does.
handleFinal_Clears(h) ==
  [flushChatStream(h) EXCEPT !.chatStream = None, !.chatStreamSegments = None,
                             !.chatRunId = None, !.chatStreamStartedAt = None,
                             !.ret = "final"]

\* handleChatEvent's final branch.
handleFinal(h) == [flushChatStream(h) EXCEPT !.ret = "final"]

\* Mutant: aborted nulls the run without flushing the throttle.
handleAborted_NoFlush(h) ==
  [h EXCEPT !.chatStream = None, !.chatStreamSegments = None,
            !.chatRunId = None, !.chatStreamStartedAt = None]

\* handleChatEvent's aborted branch.
handleAborted(h) ==
  [flushChatStream(h) EXCEPT !.chatStream = None, !.chatStreamSegments = None,
                             !.chatRunId = None, !.chatStreamStartedAt = None]

\* Mutant: no default text when the payload has no errorMessage.
handleError_NoDefault(h, pl) ==
  [flushChatStream(h) EXCEPT !.chatStream = None, !.chatStreamSegments = None,
                             !.chatRunId = None, !.chatStreamStartedAt = None,
                             !.lastError = pl.errorMessage]

\* handleChatEvent's error branch.
handleError(h, pl) ==
  [flushChatStream(h) EXCEPT !.chatStream = None, !.chatStreamSegments = None,
                             !.chatRunId = None, !.chatStreamStartedAt = None,
                             !.lastError = IF pl.errorMessage # None
                                           THEN pl.errorMessage ELSE Some("chat error")]

\* Mutant: a final of another run is handled as the active run's own.
handleChatEvent_ForeignFinalAsOwn(h, p) ==
  IF p = None THEN [h EXCEPT !.ret = "null"]
  ELSE LET pl == p[1] IN
    IF pl.sessionKey # sessionKey THEN [h EXCEPT !.ret = "null"]
    ELSE IF pl.state = "final" THEN handleFinal(h)
    ELSE IF pl.runId # None /\ h.chatRunId # None /\ pl.runId # h.chatRunId
         THEN [h EXCEPT !.ret = "null"]
    ELSE IF pl.state = "delta" THEN [handleDelta(h, pl) EXCEPT !.ret = "delta"]
    ELSE IF pl.state = "aborted" THEN [handleAborted(h) EXCEPT !.ret = "aborted"]
    ELSE [handleError(h, pl) EXCEPT !.ret = "error"]

\* Mutant: the payload's sessionKey is not compared with the session shown.
handleChatEvent_NoSessionCheck(h, p) ==
  IF p = None THEN [h EXCEPT !.ret = "null"]
  ELSE LET pl == p[1] IN
    IF pl.runId # None /\ h.chatRunId # None /\ pl.runId # h.chatRunId
    THEN [h EXCEPT !.ret = IF pl.state = "final" THEN "final-other" ELSE "null"]
    ELSE IF pl.state = "delta" THEN [handleDelta(h, pl) EXCEPT !.ret = "delta"]
    ELSE IF pl.state = "final" THEN handleFinal(h)
    ELSE IF pl.state = "aborted" THEN [handleAborted(h) EXCEPT !.ret = "aborted"]
    ELSE [handleError(h, pl) EXCEPT !.ret = "error"]

\* Mutant: only a final of another run is recognised as foreign.
handleChatEvent_NoRunCheck(h, p) ==
  IF p = None THEN [h EXCEPT !.ret = "null"]
  ELSE LET pl == p[1] IN
    IF pl.sessionKey # sessionKey THEN [h EXCEPT !.ret = "null"]
    ELSE IF pl.runId # None /\ h.chatRunId # None /\ pl.runId # h.chatRunId
            /\ pl.state = "final"
         THEN [h EXCEPT !.ret = "final-other"]
    ELSE IF pl.state = "delta" THEN [handleDelta(h, pl) EXCEPT !.ret = "delta"]
    ELSE IF pl.state = "final" THEN handleFinal(h)
    ELSE IF pl.state = "aborted" THEN [handleAborted(h) EXCEPT !.ret = "aborted"]
    ELSE [handleError(h, pl) EXCEPT !.ret = "error"]
\* Mutant: a delta is dropped while no run is active.
handleChatEvent_DeltaNeedsRun(h, p) ==
  IF p = None THEN [h EXCEPT !.ret = "null"]
  ELSE LET pl == p[1] IN
    IF pl.sessionKey # sessionKey THEN [h EXCEPT !.ret = "null"]
    ELSE IF pl.runId # None /\ h.chatRunId # None /\ pl.runId # h.chatRunId
         THEN [h EXCEPT !.ret = IF pl.state = "final" THEN "final-other" ELSE "null"]
    ELSE IF pl.state = "delta"
         THEN IF h.chatRunId = None THEN [h EXCEPT !.ret = "delta"]
              ELSE [handleDelta(h, pl) EXCEPT !.ret = "delta"]
    ELSE IF pl.state = "final" THEN handleFinal(h)
    ELSE IF pl.state = "aborted" THEN [handleAborted(h) EXCEPT !.ret = "aborted"]
    ELSE [handleError(h, pl) EXCEPT !.ret = "error"]

\* handleChatEvent(state, payload); p is None for a missing payload. ret is the
\* returned value, "null" for null.
handleChatEvent(h, p) ==
  IF p = None THEN [h EXCEPT !.ret = "null"]
  ELSE LET pl == p[1] IN
    IF pl.sessionKey # sessionKey THEN [h EXCEPT !.ret = "null"]
    ELSE IF pl.runId # None /\ h.chatRunId # None /\ pl.runId # h.chatRunId
         THEN [h EXCEPT !.ret = IF pl.state = "final" THEN "final-other" ELSE "null"]
    ELSE IF pl.state = "delta" THEN [handleDelta(h, pl) EXCEPT !.ret = "delta"]
    ELSE IF pl.state = "final" THEN handleFinal(h)
    ELSE IF pl.state = "aborted" THEN [handleAborted(h) EXCEPT !.ret = "aborted"]
    ELSE [handleError(h, pl) EXCEPT !.ret = "error"]

----
\* Writes a result of the controller's functions back to the variables.
Install(h) ==
  /\ chatRunId' = h.chatRunId
  /\ chatStream' = h.chatStream
  /\ chatStreamSegments' = h.chatStreamSegments
  /\ chatStreamStartedAt' = h.chatStreamStartedAt
  /\ lastError' = h.lastError
  /\ throttleStates' = h.throttleStates
  /\ timers' = h.timers

Init ==
  /\ connected = TRUE
  /\ tab = "chat"
  /\ sessionKey = "main"
  /\ chatRunId = None
  /\ chatStream = None
  /\ chatStreamSegments = None
  /\ chatStreamStartedAt = None
  /\ lastError = None
  /\ chatSending = FALSE
  /\ throttleStates = [s \in Sessions |-> None]
  /\ timers = {}
  /\ now = 0
  /\ sendReqs = {}
  /\ histReqs = 0
  /\ lastHeartbeat = 0
  /\ _target = <<>>
  /\ _revealed = 0
  /\ _element = FALSE
  /\ _raf = None
  /\ _lastMdRender = 0
  /\ isConnected = TRUE
  /\ innerHTML = None
  /\ frames = {}
  /\ chatQueue = <<>>
  /\ pendingSends = {}
  /\ sessionsLoading = FALSE
  /\ sessionsResult = None
  /\ sessionsError = None
  /\ sessReqs = {}
  /\ queued = <<>>
  /\ delivered = <<>>
  /\ last = Label("init", None, "void", "-")
  /\ accepted = None
  /\ burst = None
  /\ pendingSince = None
  /\ reloads = 0
  /\ hist = NoHist
  /\ appends = Some(0)

\* A chat event arrives from the gateway.
HandleChatEvent(p) ==
  /\ Install(handleChatEvent(Cur, p))
  /\ UNCHANGED <<hostVars, sessionKey, chatSending, now, sendReqs, histReqs,
                 lastHeartbeat>>

\* A throttle timer fires, at its due time or later.
TimerFire(tm) ==
  /\ tm \in timers
  /\ tm.due <= now
  /\ throttleStates[tm.sk] # None
  /\ Install(timerCallback([Cur EXCEPT !.timers = @ \ {tm}], tm.sk))
  /\ UNCHANGED <<hostVars, sessionKey, chatSending, now, sendReqs, histReqs,
                 lastHeartbeat>>

\* Time passes, up to limit.
Advance(limit) ==
  /\ now + TimeStep <= limit
  /\ now' = now + TimeStep
  /\ UNCHANGED <<hostVars, sessionKey, runVars, lastError, chatSending, throttleVars,
                 sendReqs, histReqs, lastHeartbeat>>

\* flushChatStream(state) called by the host.
FlushChatStream ==
  /\ Install(flushChatStream(Cur))
  /\ UNCHANGED <<hostVars, sessionKey, chatSending, now, sendReqs, histReqs,
                 lastHeartbeat>>

\* clearChatStreamThrottle(sk) called by the host.
ClearChatStreamThrottle(sk) ==
  /\ Install(clearChatStreamThrottle(Cur, sk))
  /\ UNCHANGED <<hostVars, sessionKey, chatSending, now, sendReqs, histReqs,
                 lastHeartbeat>>

\* An agent `stream=assistant` event carries the cumulative text of the segment.
UpdateChatStreamFromAssistantText(text) ==
  /\ Install(updateChatStreamFromAssistantText(Cur, text))
  /\ UNCHANGED <<hostVars, sessionKey, chatSending, now, sendReqs, histReqs,
                 lastHeartbeat>>

\* isChatBusy(host)
isChatBusy == chatSending \/ chatRunId # None

\* sendChatMessage up to its await of chat.send, for a non-blank message; rid is
\* generateUUID(). Its callers (handleSendChat, flushChatQueue) send only when the
\* chat is not busy.
SendChatMessage(rid) ==
  /\ connected
  /\ ~isChatBusy
  /\ rid \notin sendReqs
  /\ Cardinality(sendReqs) < MaxInFlight
  /\ chatSending' = TRUE
  /\ lastError' = None
  /\ chatRunId' = Some(rid)
  /\ chatStream' = Some(<<>>)
  /\ chatStreamSegments' = None
  /\ chatStreamStartedAt' = Some(DateNow)
  /\ sendReqs' = sendReqs \cup {rid}
  /\ UNCHANGED <<hostVars, sessionKey, throttleVars, now, histReqs, lastHeartbeat>>

\* sendChatMessage after chat.send resolved: returns runId.
SendResolved(rid) ==
  /\ rid \in sendReqs
  /\ sendReqs' = sendReqs \ {rid}
  /\ chatSending' = FALSE
  /\ UNCHANGED <<hostVars, sessionKey, runVars, lastError, throttleVars, now, histReqs,
                 lastHeartbeat>>

\* sendChatMessage after chat.send rejected: returns null.
SendRejected(rid) ==
  /\ rid \in sendReqs
  /\ sendReqs' = sendReqs \ {rid}
  /\ chatRunId' = None
  /\ chatStream' = None
  /\ chatStreamSegments' = None
  /\ chatStreamStartedAt' = None
  /\ lastError' = Some("send error")
  /\ chatSending' = FALSE
  /\ UNCHANGED <<hostVars, sessionKey, throttleVars, now, histReqs, lastHeartbeat>>

\* loadChatHistory up to its await of chat.history: [lastError, histReqs] after it.
loadChatHistory(err) ==
  IF connected
  THEN [lastError |-> None, histReqs |-> histReqs + 1]
  ELSE [lastError |-> err, histReqs |-> histReqs]

\* loadChatHistory after chat.history replied.
HistoryLoaded(ok) ==
  /\ histReqs > 0
  /\ histReqs' = histReqs - 1
  /\ lastError' = IF ok THEN lastError ELSE Some("history error")
  /\ UNCHANGED <<hostVars, sessionKey, runVars, chatSending, throttleVars, now, sendReqs,
                 lastHeartbeat>>

\* switchSession(host, newKey) for a non-empty key other than the current one.
SwitchSession(newKey) ==
  /\ newKey # sessionKey
  /\ histReqs < MaxInFlight
  /\ IF ~connected
     THEN /\ lastError' = Some("Cannot switch session: not connected")
          /\ UNCHANGED <<sessionKey, runVars, chatSending, histReqs, chatQueue>>
     ELSE /\ sessionKey' = newKey
          /\ chatStream' = None
          /\ chatStreamStartedAt' = None
          /\ chatRunId' = None
          /\ chatQueue' = <<>>
          /\ chatSending' = FALSE
          /\ lastError' = loadChatHistory(None).lastError
          /\ histReqs' = loadChatHistory(None).histReqs
          /\ UNCHANGED chatStreamSegments
  /\ UNCHANGED <<hostVars, throttleVars, now, sendReqs, lastHeartbeat, pendingSends,
                 queued, delivered, sessVars>>

\* The session selector's change handler (renderChatControls).
SessionSelect(next) ==
  /\ connected
  /\ next # sessionKey
  /\ histReqs < MaxInFlight
  /\ sessionKey' = next
  /\ chatStream' = None
  /\ chatStreamStartedAt' = None
  /\ chatRunId' = None
  /\ lastError' = loadChatHistory(lastError).lastError
  /\ histReqs' = loadChatHistory(lastError).histReqs
  /\ UNCHANGED <<hostVars, chatStreamSegments, chatSending, throttleVars, now, sendReqs,
                 lastHeartbeat>>

----
\* What an operation finds in the throttle context of session sk.
PreOf(sk) ==
  IF throttleStates[sk] = None THEN "absent"
  ELSE IF throttleStates[sk][1].pendingSync # None THEN "timer"
  ELSE IF throttleStates[sk][1].buffer # None THEN "buffered"
  ELSE "idle"

\* Whether handleChatEvent forwards payload p to the throttle.
Ingests(p) ==
  /\ p # None
  /\ handleChatEvent(Cur, p).ret = "delta"
  /\ p[1].message # None
  /\ acceptsText(Cur, p[1].message[1])

EventLabel(p) ==
  LET ret == handleChatEvent(Cur, p).ret
  IN Label("handleChatEvent",
           IF ret = "final" THEN p[1].runId
           ELSE IF Ingests(p) THEN Some("ingest") ELSE None,
           ret,
           IF ret \in {"final", "delta"} THEN PreOf(sessionKey) ELSE "-")

\* The observer of the run's last accepted ingest, after an event.
AcceptedAfterEvent(p) ==
  LET ret == handleChatEvent(Cur, p).ret
  IN IF Ingests(p) THEN p[1].message
     ELSE IF ret \in {"aborted", "error"} THEN None
     ELSE accepted

\* The events the gateway delivers in Spec: every payload of the session shown, and
\* the bare payloads of the other session.
SpecPayloads ==
  {pl \in Payloads : pl.sessionKey = sessionKey
                       \/ (pl.message = None /\ pl.errorMessage = None)}

Next ==
  \/ \E p \in {None} \cup {Some(pl) : pl \in SpecPayloads} :
        /\ HandleChatEvent(p)
        /\ last' = EventLabel(p)
        /\ accepted' = AcceptedAfterEvent(p)
        /\ UNCHANGED <<burst, pendingSince, reloads, hist, twVars, appVars,
                     appends>>
  \/ \E tm \in timers :
        /\ TimerFire(tm)
        /\ last' = Label("timer", None, "void", "-")
        /\ UNCHANGED <<accepted, burst, pendingSince, reloads, hist, twVars, appVars,
                     appends>>
  \/ /\ Advance(MaxNow)
     /\ last' = Label("advance", None, "void", "-")
     /\ UNCHANGED <<accepted, burst, pendingSince, reloads, hist, twVars, appVars,
                     appends>>
  \/ /\ FlushChatStream
     /\ last' = Label("flushChatStream", None, "void", PreOf(sessionKey))
     /\ UNCHANGED <<accepted, burst, pendingSince, reloads, hist, twVars, appVars,
                     appends>>
  \/ \E sk \in Sessions :
        /\ ClearChatStreamThrottle(sk)
        /\ last' = Label("clearChatStreamThrottle", Some(sk), "void", PreOf(sk))
        /\ accepted' = IF sk = sessionKey THEN None ELSE accepted
        /\ UNCHANGED <<burst, pendingSince, reloads, hist, twVars, appVars,
                     appends>>
  \/ \E t \in Texts :
        /\ UpdateChatStreamFromAssistantText(t)
        /\ last' = Label("updateChatStreamFromAssistantText",
                         IF acceptsText(Cur, t) THEN Some("ingest") ELSE None,
                         "void", PreOf(sessionKey))
        /\ accepted' = IF acceptsText(Cur, t) THEN Some(t) ELSE accepted
        /\ UNCHANGED <<burst, pendingSince, reloads, hist, twVars, appVars,
                     appends>>
  \/ \E rid \in RunIds :
        /\ SendChatMessage(rid)
        /\ last' = Label("sendChatMessage", None, "void", "-")
        /\ accepted' = None
        /\ UNCHANGED <<burst, pendingSince, reloads, hist, twVars, appVars,
                     appends>>
  \/ \E rid \in RunIds :
        /\ SendResolved(rid)
        /\ last' = Label("sendChatMessage", None, "runId", "-")
        /\ UNCHANGED <<accepted, burst, pendingSince, reloads, hist, twVars, appVars,
                     appends>>
  \/ \E rid \in RunIds :
        /\ SendRejected(rid)
        /\ last' = Label("sendChatMessage", None, "null", "-")
        /\ accepted' = None
        /\ UNCHANGED <<burst, pendingSince, reloads, hist, twVars, appVars,
                     appends>>

Spec == Init /\ [][Next]_vars
----
\* The throttle context of the session shown, and the timers scheduled for it.
CurTs == throttleStates[sessionKey][1]
TimersOf(ts, sk) == {tm \in ts : tm.sk = sk}

\* C2 (flush correctness): whenever flushChatStream runs while a text is buffered
\* for the session shown, it makes chatStream and chatStreamSegments the buffered
\* text and segments, and leaves the context with no buffered value, no handle and
\* no scheduled timer.
C2_FlushCommitsPending ==
  [][(/\ last'.op = "flushChatStream"
      /\ throttleStates[sessionKey] # None
      /\ CurTs.buffer # None)
     => (/\ chatStream' = CurTs.buffer
         /\ chatStreamSegments' = CurTs.segmentsBuffer
         /\ throttleStates'[sessionKey] # None
         /\ throttleStates'[sessionKey][1].buffer = None
         /\ throttleStates'[sessionKey][1].segmentsBuffer = None
         /\ throttleStates'[sessionKey][1].pendingSync = None
         /\ TimersOf(timers', sessionKey) = {})]_vars

\* C2 witness: a flush that found a scheduled timer has committed a text with its
\* segments.
C2_Witness ==
  /\ last.op = "flushChatStream"
  /\ last.pre = "timer"
  /\ chatStream = Some(Rep(2))
  /\ chatStreamSegments # None
  /\ timers = {}

\* The final events of the session shown that belong to a run other than the active one.
ForeignFinals ==
  {pl \in BarePayloads({"final"}) :
     /\ pl.sessionKey = sessionKey
     /\ pl.runId # None
     /\ chatRunId # None
     /\ pl.runId # chatRunId}

C4_OwnFinalClears ==
  [][(/\ last'.op = "handleChatEvent"
      /\ last'.ret = "final"
      /\ chatRunId # None
      /\ last'.arg = chatRunId)
     => (/\ chatRunId' = None
         /\ chatStream' = None
         /\ chatStreamStartedAt' = None)]_vars

C8_ClearDiscards ==
  [][last'.op = "clearChatStreamThrottle"
     => (/\ UNCHANGED <<runVars, lastError>>
         /\ throttleStates'[last'.arg[1]] = None
         /\ TimersOf(timers', last'.arg[1]) = {}
         /\ \A sk \in Sessions \ {last'.arg[1]} :
              /\ throttleStates'[sk] = throttleStates[sk]
              /\ TimersOf(timers', sk) = TimersOf(timers, sk))]_vars

\* C8 witness: a clear of the session shown found a timer scheduled for a buffered
\* text that is not the committed one.
C8_Witness ==
  /\ last.op = "clearChatStreamThrottle"
  /\ last.arg = Some(sessionKey)
  /\ last.pre = "timer"
  /\ chatStream = Some(Rep(1))
  /\ timers = {}
----
\* Session switching. The gateway client sets host.connected; the deltas delivered
\* are those of the session shown.
SetConnected(c) ==
  /\ connected # c
  /\ connected' = c
  /\ UNCHANGED <<tab, sessionKey, runVars, lastError, chatSending, throttleVars, now,
                 sendReqs, histReqs, lastHeartbeat>>

SwitchPayloads ==
  {pl \in DeltaPayloads({Rep(1), Rep(2)}, {None}) :
     pl.sessionKey = sessionKey /\ pl.runId = None}

NextSwitch ==
  \/ \E pl \in SwitchPayloads :
        /\ HandleChatEvent(Some(pl))
        /\ last' = EventLabel(Some(pl))
        /\ UNCHANGED <<accepted, burst, pendingSince, reloads, hist, twVars, appVars,
                     appends>>
  \/ \E tm \in timers :
        /\ TimerFire(tm)
        /\ last' = Label("timer", Some(tm.sk), "void", "-")
        /\ UNCHANGED <<accepted, burst, pendingSince, reloads, hist, twVars, appVars,
                     appends>>
  \/ /\ Advance(MaxNow)
     /\ last' = Label("advance", None, "void", "-")
     /\ UNCHANGED <<accepted, burst, pendingSince, reloads, hist, twVars, appVars,
                     appends>>
  \/ \E k \in Sessions :
        /\ SwitchSession(k)
        /\ last' = Label("switchSession", Some(k), "void", PreOf(sessionKey))
        /\ UNCHANGED <<accepted, burst, pendingSince, reloads, hist, twVars, appends>>
  \/ \E k \in Sessions :
        /\ SessionSelect(k)
        /\ last' = Label("sessionSelect", Some(k), "void", PreOf(sessionKey))
        /\ UNCHANGED <<accepted, burst, pendingSince, reloads, hist, twVars, appVars,
                     appends>>
  \/ \E ok \in BOOLEAN :
        /\ HistoryLoaded(ok)
        /\ last' = Label("loadChatHistory", None, "void", "-")
        /\ UNCHANGED <<accepted, burst, pendingSince, reloads, hist, twVars, appVars,
                     appends>>
  \/ \E c \in BOOLEAN :
        /\ SetConnected(c)
        /\ last' = Label("connected", None, "void", "-")
        /\ UNCHANGED <<accepted, burst, pendingSince, reloads, hist, twVars, appVars,
                     appends>>
  \/ /\ FlushChatStream
     /\ last' = Label("flushChatStream", None, "void", PreOf(sessionKey))
     /\ UNCHANGED <<accepted, burst, pendingSince, reloads, hist, twVars, appVars,
                     appends>>
  \/ \E sk \in Sessions :
        /\ ClearChatStreamThrottle(sk)
        /\ last' = Label("clearChatStreamThrottle", Some(sk), "void", PreOf(sk))
        /\ UNCHANGED <<accepted, burst, pendingSince, reloads, hist, twVars, appVars,
                     appends>>

SpecSwitch == Init /\ [][NextSwitch]_vars

\* C7 (cancellation on session switch): a switch of session (switchSession or the
\* session selector) leaves no throttle timer of the session left behind scheduled,
\* and a timer callback of a session that is not the one shown changes neither
\* chatStream nor chatStreamSegments.
C7_SwitchCancelsTimer ==
  [][/\ (last'.op \in {"switchSession", "sessionSelect"} /\ sessionKey' # sessionKey)
          => TimersOf(timers', sessionKey) = {}
     /\ (last'.op = "timer" /\ last'.arg # Some(sessionKey))
          => UNCHANGED <<chatStream, chatStreamSegments>>]_vars

\* C9 (single timer): every session has at most one scheduled throttle timer; a
\* session without a context has none; and the context's pendingSync is non-null
\* exactly when a scheduled timer carries its id, which is then the session's only
\* timer.
C9_SingleTimer ==
  \A sk \in Sessions :
    /\ Cardinality(TimersOf(timers, sk)) <= 1
    /\ throttleStates[sk] = None => TimersOf(timers, sk) = {}
    /\ throttleStates[sk] # None =>
         LET ts == throttleStates[sk][1]
         IN /\ ts.pendingSync = None => TimersOf(timers, sk) = {}
            /\ ts.pendingSync # None =>
                 \E tm \in timers :
                    /\ tm.id = ts.pendingSync[1]
                    /\ TimersOf(timers, sk) = {tm}
                    /\ \A other \in timers \ {tm} : other.id # tm.id

\* C9 witness: a delta was ingested while the session's timer was already scheduled;
\* the session still has one timer, and the other session has one of its own.
C9_Witness ==
  /\ last.op = "handleChatEvent"
  /\ last.arg = Some("ingest")
  /\ last.pre = "timer"
  /\ Cardinality(TimersOf(timers, sessionKey)) = 1
  /\ Cardinality(timers) = 2
----
\* A burst of BurstLen delta ingests "a", "aa", ... of the session shown, all within
\* one throttle interval of the first. Before the burst the context is put into any
\* of its conditions by empty-text deltas, a started run, timers and the clock.
\* burst observes it: when it started, how many of its ingests were made (n), how
\* often chatStream changed from the first ingest to the last (changes) and since
\* the first (total), and the value of the last such change up to the last ingest.
BurstPayload(k) ==
  [runId |-> None, sessionKey |-> sessionKey, state |-> "delta",
   message |-> Some(Rep(k)), segments |-> None, errorMessage |-> None]

BurstDone == burst # None /\ burst[1].n = BurstLen

BurstAfter(start, n) ==
  LET b == IF burst = None
           THEN [start |-> start, n |-> 0, changes |-> 0, total |-> 0, value |-> None]
           ELSE burst[1]
      changed == chatStream' # chatStream
      counted == changed /\ b.n < BurstLen
  IN Some([start |-> b.start, n |-> n,
           changes |-> b.changes + (IF counted THEN 1 ELSE 0),
           total |-> b.total + (IF changed THEN 1 ELSE 0),
           value |-> IF counted THEN chatStream' ELSE b.value])

NextBurst ==
  \/ /\ burst = None
     /\ HandleChatEvent(Some(BurstPayload(0)))
     /\ last' = EventLabel(Some(BurstPayload(0)))
     /\ UNCHANGED <<accepted, burst, pendingSince, reloads, hist, twVars, appVars,
                     appends>>
  \/ \E rid \in RunIds :
        /\ burst = None
        /\ SendChatMessage(rid)
        /\ last' = Label("sendChatMessage", None, "void", "-")
        /\ UNCHANGED <<accepted, burst, pendingSince, reloads, hist, twVars, appVars,
                     appends>>
  \/ \E rid \in RunIds :
        /\ SendResolved(rid)
        /\ last' = Label("sendChatMessage", None, "runId", "-")
        /\ UNCHANGED <<accepted, burst, pendingSince, reloads, hist, twVars, appVars,
                     appends>>
  \/ \E k \in 1..BurstLen :
        /\ k = IF burst = None THEN 1 ELSE burst[1].n + 1
        /\ burst # None => now - burst[1].start < CHAT_STREAM_THROTTLE_MS
        /\ HandleChatEvent(Some(BurstPayload(k)))
        /\ last' = EventLabel(Some(BurstPayload(k)))
        /\ burst' = BurstAfter(now, k)
        /\ UNCHANGED <<accepted, pendingSince, reloads, hist, twVars, appVars,
                     appends>>
  \/ \E tm \in timers :
        /\ TimerFire(tm)
        /\ last' = Label("timer", Some(tm.sk), "void", "-")
        /\ burst' = IF burst = None THEN None ELSE BurstAfter(now, burst[1].n)
        /\ UNCHANGED <<accepted, pendingSince, reloads, hist, twVars, appVars,
                     appends>>
  \/ /\ Advance(MaxNowTiming)
     /\ last' = Label("advance", None, "void", "-")
     /\ UNCHANGED <<accepted, burst, pendingSince, reloads, hist, twVars, appVars,
                     appends>>

SpecBurst == Init /\ [][NextBurst]_vars

\* C1 as stated (throttle coalescing): when the five ingests of a burst have been
\* made within one throttle interval, every change of chatStream between the first
\* ingest and the last was the only one and made it the last (fifth) text.
C1_OneCommitOfLast ==
  BurstDone =>
    (burst[1].changes >= 1 =>
       (burst[1].changes = 1 /\ burst[1].value = Some(Rep(BurstLen))))

\* C1 amended (leading edge and deferred trailing edge): between the first and the
\* last ingest of the burst chatStream changes at most once, to a text of the burst;
\* after the last ingest it changes at most once more; and as soon as no throttle
\* timer of the session is scheduled, chatStream is the last text of the burst.
C1_BurstCoalesced ==
  BurstDone =>
    /\ burst[1].changes <= 1
    /\ burst[1].total <= burst[1].changes + 1
    /\ burst[1].value # None => burst[1].value[1] \in {Rep(k) : k \in 0..BurstLen}
    /\ TimersOf(timers, sessionKey) = {} => chatStream = Some(Rep(BurstLen))

\* C1 witness: the first ingest of the burst was committed at once, the last one by
\* the timer after the burst.
C1_Witness ==
  /\ BurstDone
  /\ burst[1].changes = 1
  /\ burst[1].value = Some(Rep(1))
  /\ burst[1].total = 2
  /\ last.op = "timer"
  /\ timers = {}
  /\ chatStream = Some(Rep(BurstLen))
----
\* Timers that fire on time: the clock never passes the due time of a scheduled
\* timer. No clear, switch of session, abort or error happens, and a run is started
\* only when the context holds no text.
MinOf(S) == CHOOSE x \in S : \A y \in S : x <= y

AdvanceOnTime(limit) ==
  /\ \A tm \in timers : tm.due > now
  /\ LET t == MinOf({now + TimeStep} \cup {tm.due : tm \in timers})
     IN /\ t <= limit
        /\ now' = t
  /\ UNCHANGED <<hostVars, sessionKey, runVars, lastError, chatSending, throttleVars,
                 sendReqs, histReqs, lastHeartbeat>>

\* Whether the context of the session shown holds a text that is not the committed one.
Uncommitted(states, stream) ==
  /\ states[sessionKey] # None
  /\ states[sessionKey][1].buffer # None
  /\ states[sessionKey][1].buffer # stream

\* pendingSince after a step: the time the oldest text still uncommitted was accepted.
PendingAfter ==
  IF Uncommitted(throttleStates', chatStream')
  THEN IF pendingSince = None THEN Some(now') ELSE pendingSince
  ELSE None

OnTimePayloads ==
  {pl \in DeltaPayloads({Rep(1), Rep(2), <<"b">>}, {None}) \cup BarePayloads({"final"}) :
     pl.sessionKey = sessionKey /\ pl.runId = None}

NextOnTime ==
  \/ \E pl \in OnTimePayloads :
        /\ HandleChatEvent(Some(pl))
        /\ last' = EventLabel(Some(pl))
        /\ pendingSince' = PendingAfter
        /\ UNCHANGED <<accepted, burst, reloads, hist, twVars, appVars,
                     appends>>
  \/ \E t \in {Rep(1), Rep(2)} :
        /\ UpdateChatStreamFromAssistantText(t)
        /\ last' = Label("updateChatStreamFromAssistantText",
                         IF acceptsText(Cur, t) THEN Some("ingest") ELSE None,
                         "void", PreOf(sessionKey))
        /\ pendingSince' = PendingAfter
        /\ UNCHANGED <<accepted, burst, reloads, hist, twVars, appVars,
                     appends>>
  \/ \E tm \in timers :
        /\ TimerFire(tm)
        /\ last' = Label("timer", Some(tm.sk), "void",
                         IF pendingSince # None THEN "pending" ELSE "-")
        /\ pendingSince' = PendingAfter
        /\ UNCHANGED <<accepted, burst, reloads, hist, twVars, appVars,
                     appends>>
  \/ /\ AdvanceOnTime(MaxNowTiming)
     /\ last' = Label("advance", None, "void", "-")
     /\ pendingSince' = PendingAfter
     /\ UNCHANGED <<accepted, burst, reloads, hist, twVars, appVars,
                     appends>>
  \/ /\ FlushChatStream
     /\ last' = Label("flushChatStream", None, "void", PreOf(sessionKey))
     /\ pendingSince' = PendingAfter
     /\ UNCHANGED <<accepted, burst, reloads, hist, twVars, appVars,
                     appends>>
  \/ \E rid \in RunIds :
        /\ PreOf(sessionKey) \in {"absent", "idle"}
        /\ SendChatMessage(rid)
        /\ last' = Label("sendChatMessage", None, "void", "-")
        /\ pendingSince' = PendingAfter
        /\ UNCHANGED <<accepted, burst, reloads, hist, twVars, appVars,
                     appends>>
  \/ \E rid \in RunIds :
        /\ SendResolved(rid)
        /\ last' = Label("sendChatMessage", None, "runId", "-")
        /\ pendingSince' = PendingAfter
        /\ UNCHANGED <<accepted, burst, reloads, hist, twVars, appVars,
                     appends>>

SpecOnTime == Init /\ [][NextOnTime]_vars

\* C10 (bounded commit latency): with timers firing on time and no clear, switch or
\* run reset, a text accepted by the throttle is never left uncommitted for more
\* than CHAT_STREAM_THROTTLE_MS, and while it is uncommitted a timer of the session
\* is scheduled to commit it within that time.
C10_BoundedLatency ==
  pendingSince # None =>
    /\ now - pendingSince[1] <= CHAT_STREAM_THROTTLE_MS
    /\ \E tm \in TimersOf(timers, sessionKey) :
          tm.due <= pendingSince[1] + CHAT_STREAM_THROTTLE_MS

\* C10 witness: a timer has committed a two-character text that had been waiting.
C10_Witness ==
  /\ last.op = "timer"
  /\ last.pre = "pending"
  /\ pendingSince = None
  /\ chatStream = Some(Rep(2))
  /\ now >= CHAT_STREAM_THROTTLE_MS
----
\* The stall heartbeat. The clock moves in steps of HeartbeatStep and the interval
\* callback runs when CHAT_HEARTBEAT_INTERVAL_MS have passed since the last one.
Tabs == {"chat", "logs"}

\* host.setTab(next)
SetTab(t) ==
  /\ tab # t
  /\ tab' = t
  /\ UNCHANGED <<connected, sessionKey, runVars, lastError, chatSending, throttleVars,
                 now, sendReqs, histReqs, lastHeartbeat>>

\* Mutant: the stalled run's id and start time are kept.
handleChatHeartbeat_KeepsRun ==
  IF ~connected \/ tab # "chat"
  THEN [chatRunId |-> chatRunId, chatStream |-> chatStream,
        chatStreamSegments |-> chatStreamSegments,
        chatStreamStartedAt |-> chatStreamStartedAt,
        lastError |-> lastError, histReqs |-> histReqs]
  ELSE IF checkChatStreamTimeout
       THEN [chatRunId |-> chatRunId, chatStream |-> None, chatStreamSegments |-> None,
             chatStreamStartedAt |-> chatStreamStartedAt,
             lastError |-> loadChatHistory(lastError).lastError,
             histReqs |-> loadChatHistory(lastError).histReqs]
       ELSE [chatRunId |-> chatRunId, chatStream |-> chatStream,
             chatStreamSegments |-> chatStreamSegments,
             chatStreamStartedAt |-> chatStreamStartedAt,
             lastError |-> lastError, histReqs |-> histReqs]

\* handleChatHeartbeat(host): the fields it leaves.
handleChatHeartbeat ==
  IF ~connected \/ tab # "chat"
  THEN [chatRunId |-> chatRunId, chatStream |-> chatStream,
        chatStreamSegments |-> chatStreamSegments,
        chatStreamStartedAt |-> chatStreamStartedAt,
        lastError |-> lastError, histReqs |-> histReqs]
  ELSE IF checkChatStreamTimeout
       THEN [chatRunId |-> None, chatStream |-> None, chatStreamSegments |-> None,
             chatStreamStartedAt |-> None,
             lastError |-> loadChatHistory(lastError).lastError,
             histReqs |-> loadChatHistory(lastError).histReqs]
       ELSE [chatRunId |-> chatRunId, chatStream |-> chatStream,
             chatStreamSegments |-> chatStreamSegments,
             chatStreamStartedAt |-> chatStreamStartedAt,
             lastError |-> lastError, histReqs |-> histReqs]

\* The setInterval callback.
HeartbeatTick ==
  /\ now - lastHeartbeat >= CHAT_HEARTBEAT_INTERVAL_MS
  /\ lastHeartbeat' = now
  /\ chatRunId' = handleChatHeartbeat.chatRunId
  /\ chatStream' = handleChatHeartbeat.chatStream
  /\ chatStreamSegments' = handleChatHeartbeat.chatStreamSegments
  /\ chatStreamStartedAt' = handleChatHeartbeat.chatStreamStartedAt
  /\ lastError' = handleChatHeartbeat.lastError
  /\ histReqs' = handleChatHeartbeat.histReqs
  /\ UNCHANGED <<hostVars, sessionKey, chatSending, throttleVars, now, sendReqs>>

\* Time passes while no heartbeat is due.
AdvanceHB ==
  /\ now - lastHeartbeat < CHAT_HEARTBEAT_INTERVAL_MS
  /\ now + HeartbeatStep <= MaxNowHB
  /\ now' = now + HeartbeatStep
  /\ UNCHANGED <<hostVars, sessionKey, runVars, lastError, chatSending, throttleVars,
                 sendReqs, histReqs, lastHeartbeat>>

HBPayloads ==
  {pl \in BarePayloads({"final", "aborted"}) :
     pl.sessionKey = sessionKey /\ pl.runId = None}

NextHB ==
  \/ \E rid \in RunIds :
        /\ SendChatMessage(rid)
        /\ last' = Label("sendChatMessage", None, "void", "-")
        /\ reloads' = 0
        /\ UNCHANGED <<accepted, burst, pendingSince, hist, twVars, appVars,
                     appends>>
  \/ \E rid \in RunIds :
        /\ SendResolved(rid)
        /\ last' = Label("sendChatMessage", None, "runId", "-")
        /\ UNCHANGED <<accepted, burst, pendingSince, reloads, hist, twVars, appVars,
                     appends>>
  \/ \E rid \in RunIds :
        /\ SendRejected(rid)
        /\ last' = Label("sendChatMessage", None, "null", "-")
        /\ UNCHANGED <<accepted, burst, pendingSince, reloads, hist, twVars, appVars,
                     appends>>
  \/ \E pl \in HBPayloads :
        /\ HandleChatEvent(Some(pl))
        /\ last' = EventLabel(Some(pl))
        /\ UNCHANGED <<accepted, burst, pendingSince, reloads, hist, twVars, appVars,
                     appends>>
  \/ /\ HeartbeatTick
     /\ last' = Label("heartbeat", None,
                      IF histReqs' > histReqs THEN "reload" ELSE "void", "-")
     /\ reloads' = reloads + (histReqs' - histReqs)
     /\ UNCHANGED <<accepted, burst, pendingSince, hist, twVars, appVars,
                     appends>>
  \/ /\ AdvanceHB
     /\ last' = Label("advance", None, "void", "-")
     /\ UNCHANGED <<accepted, burst, pendingSince, reloads, hist, twVars, appVars,
                     appends>>
  \/ \E t \in Tabs :
        /\ SetTab(t)
        /\ last' = Label("setTab", None, "void", "-")
        /\ UNCHANGED <<accepted, burst, pendingSince, reloads, hist, twVars, appVars,
                     appends>>
  \/ \E c \in BOOLEAN :
        /\ SetConnected(c)
        /\ last' = Label("connected", None, "void", "-")
        /\ UNCHANGED <<accepted, burst, pendingSince, reloads, hist, twVars, appVars,
                     appends>>
  \/ \E ok \in BOOLEAN :
        /\ HistoryLoaded(ok)
        /\ last' = Label("loadChatHistory", None, "void", "-")
        /\ UNCHANGED <<accepted, burst, pendingSince, reloads, hist, twVars, appVars,
                     appends>>

SpecHB == Init /\ [][NextHB]_vars

\* A run is active and its start is more than CHAT_STREAM_TIMEOUT_MS ago.
Stalled ==
  /\ chatRunId # None
  /\ chatStreamStartedAt # None
  /\ DateNow - chatStreamStartedAt[1] > CHAT_STREAM_TIMEOUT_MS

\* C6 (stall recovery once per stall): a heartbeat tick that finds a stalled run,
\* with the host connected and on the chat tab, nulls chatRunId, chatStream,
\* chatStreamSegments and chatStreamStartedAt and starts one history reload; a tick
\* that finds no run active changes neither the run state nor starts a reload; and
\* the heartbeat never starts a second reload before a new run is started.
C6_StallRecoveredOnce ==
  [][/\ (last'.op = "heartbeat" /\ Stalled /\ connected /\ tab = "chat")
          => (/\ chatRunId' = None
              /\ chatStream' = None
              /\ chatStreamSegments' = None
              /\ chatStreamStartedAt' = None
              /\ histReqs' = histReqs + 1
              /\ reloads' = 1)
     /\ (last'.op = "heartbeat" /\ chatRunId = None)
          => UNCHANGED <<runVars, histReqs, reloads, hist>>
     /\ reloads' <= 1]_vars

\* C6 witness: after the heartbeat reloaded the history for a stalled run, a later
\* tick with the host connected and on the chat tab did nothing.
C6_Witness ==
  /\ last.op = "heartbeat"
  /\ last.ret = "void"
  /\ reloads = 1
  /\ connected
  /\ tab = "chat"
  /\ chatRunId = None
  /\ chatStreamStartedAt = None
----
\* The event router with every kind of payload, of the session shown and of the
\* other one. The label of an event step carries the payload itself.
RouterPayloads ==
  DeltaPayloads({Rep(1), Rep(2)}, {None} \cup {Some(s) : s \in SegmentArrays})
    \cup BarePayloads({"delta", "final", "aborted"}) \cup ErrorPayloads

NextRouter ==
  \/ \E p \in {None} \cup {Some(pl) : pl \in RouterPayloads} :
        /\ HandleChatEvent(p)
        /\ last' = Label("handleChatEvent", p, handleChatEvent(Cur, p).ret, PreOf(sessionKey))
        /\ UNCHANGED <<accepted, burst, pendingSince, reloads, hist, twVars, appVars,
                     appends>>
  \/ \E t \in {Rep(1), Rep(2)} :
        /\ UpdateChatStreamFromAssistantText(t)
        /\ last' = Label("updateChatStreamFromAssistantText", Some(t), "void",
                         PreOf(sessionKey))
        /\ UNCHANGED <<accepted, burst, pendingSince, reloads, hist, twVars, appVars,
                     appends>>
  \/ \E tm \in timers :
        /\ TimerFire(tm)
        /\ last' = Label("timer", Some(tm.sk), "void", "-")
        /\ UNCHANGED <<accepted, burst, pendingSince, reloads, hist, twVars, appVars,
                     appends>>
  \/ /\ Advance(MaxNow)
     /\ last' = Label("advance", None, "void", "-")
     /\ UNCHANGED <<accepted, burst, pendingSince, reloads, hist, twVars, appVars,
                     appends>>
  \/ \E rid \in RunIds :
        /\ SendChatMessage(rid)
        /\ last' = Label("sendChatMessage", None, "void", "-")
        /\ UNCHANGED <<accepted, burst, pendingSince, reloads, hist, twVars, appVars,
                     appends>>
  \/ \E rid \in RunIds :
        /\ SendResolved(rid)
        /\ last' = Label("sendChatMessage", None, "runId", "-")
        /\ UNCHANGED <<accepted, burst, pendingSince, reloads, hist, twVars, appVars,
                     appends>>

SpecRouter == Init /\ [][NextRouter]_vars

\* The payload of the event step that led to the next state, when it had one.
EventStep == last'.op = "handleChatEvent" /\ last'.arg # None
\* Whether payload pl is of the session shown and not of a run other than the active one.
OwnPayload(pl) ==
  /\ pl.sessionKey = sessionKey
  /\ ~(pl.runId # None /\ chatRunId # None /\ pl.runId # chatRunId)
\* Whether a text of length n passes the monotonic-growth guard.
GrowthOk(n) ==
  \/ chatStream = None
  \/ Len(chatStream[1]) = 0
  \/ n >= Len(chatStream[1])

C18_ErrorSurfaced ==
  [][/\ (EventStep /\ OwnPayload(last'.arg[1]) /\ last'.arg[1].state = "error")
          => (/\ last'.ret = "error"
              /\ chatRunId' = None
              /\ chatStream' = None
              /\ chatStreamSegments' = None
              /\ chatStreamStartedAt' = None
              /\ throttleStates'[sessionKey] # None
              /\ throttleStates'[sessionKey][1].buffer = None
              /\ throttleStates'[sessionKey][1].pendingSync = None
              /\ TimersOf(timers', sessionKey) = {}
              /\ lastError' = IF last'.arg[1].errorMessage # None
                              THEN last'.arg[1].errorMessage ELSE Some("chat error"))
     /\ (last'.op = "handleChatEvent" /\ last'.ret # "error")
          => UNCHANGED lastError]_vars

\* C18 witness: an error event without errorMessage found a timer scheduled and
\* replaced an earlier error text by the default one.
C18_Witness ==
  /\ last.op = "handleChatEvent"
  /\ last.ret = "error"
  /\ last.arg[1].errorMessage = None
  /\ last.pre = "timer"
  /\ lastError = Some("chat error")
  /\ chatRunId = None
  /\ timers = {}

\* C19 (ignored input changes nothing): a missing payload, and a payload of any
\* state whose sessionKey is not the session shown, returns null and leaves the run
\* state, lastError, every throttle context and every timer unchanged.
C19_IgnoredInput ==
  [][(last'.op = "handleChatEvent"
        /\ (last'.arg = None \/ last'.arg[1].sessionKey # sessionKey))
     => (/\ last'.ret = "null"
         /\ UNCHANGED <<runVars, lastError, throttleVars>>)]_vars

\* C19 witness: a text delta of the other session was ignored while a run was
\* active with a timer scheduled; the other session has no context.
C19_Witness ==
  /\ last.op = "handleChatEvent"
  /\ last.ret = "null"
  /\ last.arg # None
  /\ last.arg[1].sessionKey # sessionKey
  /\ last.arg[1].state = "delta"
  /\ last.arg[1].message # None
  /\ chatRunId # None
  /\ TimersOf(timers, sessionKey) # {}
  /\ throttleStates[last.arg[1].sessionKey] = None

\* C20 (foreign-run non-final events): while a run is active, a delta, aborted or
\* error event of the session shown with another runId returns null and leaves the
\* run state, lastError, the throttle contexts and the timers unchanged.
C20_ForeignNonFinalIgnored ==
  [][(/\ EventStep
      /\ last'.arg[1].sessionKey = sessionKey
      /\ last'.arg[1].state # "final"
      /\ last'.arg[1].runId # None
      /\ chatRunId # None
      /\ last'.arg[1].runId # chatRunId)
     => (/\ last'.ret = "null"
         /\ UNCHANGED <<runVars, lastError, throttleVars>>)]_vars

\* C20 witness: an aborted event of another run was ignored; the active run still
\* shows its text and has a timer scheduled.
C20_Witness ==
  /\ last.op = "handleChatEvent"
  /\ last.ret = "null"
  /\ last.arg # None
  /\ last.arg[1].sessionKey = sessionKey
  /\ last.arg[1].state = "aborted"
  /\ last.arg[1].runId # None
  /\ chatRunId # None
  /\ last.arg[1].runId # chatRunId
  /\ chatStream = Some(Rep(1))
  /\ TimersOf(timers, sessionKey) # {}
----
\* The throttle of one session over a longer time: text deltas, assistant texts,
\* finals, flushes, clears, timers that may fire late, and the start of a run.
\* hist observes the accepted ingests and the changes the throttle makes to
\* chatStream (an ingest committed at once, or a timer callback).
ThrottlePayloads ==
  {pl \in DeltaPayloads({Rep(1), Rep(2)}, {None})
            \cup DeltaPayloads({Rep(2)}, {Some(s) : s \in SegmentArrays})
            \cup BarePayloads({"final"}) :
     pl.sessionKey = sessionKey /\ pl.runId = None}

\* hist after a step: ingested is the accepted text (or None); kind is "throttle"
\* for an ingest or a timer callback, "flush" for a flush and "other" for the rest;
\* cleared tells a clear of the session shown.
HistAfter(ingested, kind, cleared) ==
  LET changed == chatStream' # chatStream
      commit == kind = "throttle" /\ changed
  IN [latest |-> IF ingested # None THEN ingested ELSE hist.latest,
      waiting |-> IF changed /\ kind # "other" THEN 0
                  ELSE IF ingested # None /\ hist.waiting < 2 THEN hist.waiting + 1
                  ELSE hist.waiting,
      at |-> IF commit THEN Some(now) ELSE hist.at,
      prev |-> IF commit THEN hist.at ELSE hist.prev,
      atSinceClear |-> IF cleared THEN None
                       ELSE IF commit THEN Some(now) ELSE hist.atSinceClear,
      prevSinceClear |-> IF cleared THEN None
                         ELSE IF commit THEN hist.atSinceClear ELSE hist.prevSinceClear]

\* What a step finds of the waiting ingests.
WaitingPre == IF hist.waiting = 2 THEN "coalesced" ELSE PreOf(sessionKey)

NextThrottle ==
  \/ \E pl \in ThrottlePayloads :
        /\ HandleChatEvent(Some(pl))
        /\ last' = Label("handleChatEvent",
                         IF Ingests(Some(pl)) THEN pl.message ELSE None,
                         handleChatEvent(Cur, Some(pl)).ret, WaitingPre)
        /\ hist' = HistAfter(IF Ingests(Some(pl)) THEN pl.message ELSE None,
                             IF pl.state = "delta" THEN "throttle" ELSE "flush", FALSE)
        /\ UNCHANGED <<accepted, burst, pendingSince, reloads, twVars, appVars,
                     appends>>
  \/ \E t \in {Rep(1), Rep(2)} :
        /\ UpdateChatStreamFromAssistantText(t)
        /\ last' = Label("updateChatStreamFromAssistantText",
                         IF acceptsText(Cur, t) THEN Some(t) ELSE None, "void", WaitingPre)
        /\ hist' = HistAfter(IF acceptsText(Cur, t) THEN Some(t) ELSE None, "throttle", FALSE)
        /\ UNCHANGED <<accepted, burst, pendingSince, reloads, twVars, appVars,
                     appends>>
  \/ \E tm \in timers :
        /\ TimerFire(tm)
        /\ last' = Label("timer", Some(tm.sk), "void", WaitingPre)
        /\ hist' = HistAfter(None, "throttle", FALSE)
        /\ UNCHANGED <<accepted, burst, pendingSince, reloads, twVars, appVars,
                     appends>>
  \/ /\ Advance(MaxNowTiming)
     /\ last' = Label("advance", None, "void", "-")
     /\ UNCHANGED <<accepted, burst, pendingSince, reloads, hist, twVars, appVars,
                     appends>>
  \/ /\ FlushChatStream
     /\ last' = Label("flushChatStream", None, "void", WaitingPre)
     /\ hist' = HistAfter(None, "flush", FALSE)
     /\ UNCHANGED <<accepted, burst, pendingSince, reloads, twVars, appVars,
                     appends>>
  \/ /\ ClearChatStreamThrottle(sessionKey)
     /\ last' = Label("clearChatStreamThrottle", Some(sessionKey), "void", WaitingPre)
     /\ hist' = HistAfter(None, "other", TRUE)
     /\ UNCHANGED <<accepted, burst, pendingSince, reloads, twVars, appVars,
                     appends>>
  \/ \E rid \in {"A"} :
        /\ SendChatMessage(rid)
        /\ last' = Label("sendChatMessage", None, "void", "-")
        /\ hist' = HistAfter(None, "other", FALSE)
        /\ UNCHANGED <<accepted, burst, pendingSince, reloads, twVars, appVars,
                     appends>>

SpecThrottle == Init /\ [][NextThrottle]_vars

\* A step by which an ingest is accepted, and a step of the throttle itself (an
\* ingest or a timer callback), in SpecThrottle.
IngestStep ==
  /\ last'.op \in {"handleChatEvent", "updateChatStreamFromAssistantText"}
  /\ last'.arg # None
ThrottleStep ==
  \/ last'.op = "handleChatEvent" /\ last'.ret = "delta"
  \/ last'.op \in {"updateChatStreamFromAssistantText", "timer"}
CommitStep ==
  /\ \/ ThrottleStep
     \/ last'.op = "flushChatStream"
     \/ last'.op = "handleChatEvent" /\ last'.ret = "final"
  /\ chatStream' # chatStream
\* lastSyncTime of the session shown; a context created by the ingest starts at 0.
LastSyncTime == IF throttleStates[sessionKey] = None THEN 0 ELSE CurTs.lastSyncTime

C12_CommitsApart ==
  (hist.at # None /\ hist.prev # None)
     => hist.at[1] - hist.prev[1] >= CHAT_STREAM_THROTTLE_MS

\* C12 amended: two consecutive changes of chatStream by the throttle with no
\* clearChatStreamThrottle of the session between them are at least
\* CHAT_STREAM_THROTTLE_MS apart.
C12_CommitsApartSinceClear ==
  (hist.atSinceClear # None /\ hist.prevSinceClear # None)
     => hist.atSinceClear[1] - hist.prevSinceClear[1] >= CHAT_STREAM_THROTTLE_MS

\* C12 witness: the throttle changed chatStream twice, exactly one interval apart.
C12_Witness ==
  /\ hist.atSinceClear # None
  /\ hist.prevSinceClear # None
  /\ hist.atSinceClear[1] - hist.prevSinceClear[1] = CHAT_STREAM_THROTTLE_MS
  /\ hist.atSinceClear = Some(now)
  /\ last.op \in {"timer", "handleChatEvent"}

\* C13 (a commit empties the pending slot): after a change of chatStream by the
\* throttle the context's buffer and segmentsBuffer are null, and a flush that
\* finds no ingest accepted since chatStream last changed leaves chatStream and
\* chatStreamSegments as they are.
C13_CommitEmptiesPending ==
  [][/\ (ThrottleStep /\ chatStream' # chatStream)
          => (/\ throttleStates'[sessionKey][1].buffer = None
              /\ throttleStates'[sessionKey][1].segmentsBuffer = None)
     /\ (last'.op = "flushChatStream" /\ hist.waiting = 0)
          => UNCHANGED <<chatStream, chatStreamSegments>>]_vars

\* The timer the session's context holds the handle of, in the next state.
HeldTimers ==
  {tm \in TimersOf(timers', sessionKey) :
     throttleStates'[sessionKey][1].pendingSync = Some(tm.id)}

\* An accepted ingest is left to a timer: chatStream and chatStreamSegments stay,
\* the text is in the buffer, and the context holds the handle of a scheduled timer.
Deferred ==
  /\ UNCHANGED <<chatStream, chatStreamSegments>>
  /\ throttleStates'[sessionKey][1].buffer = last'.arg
  /\ HeldTimers # {}

\* C14 as stated (leading edge versus deferred commit): an accepted ingest that
\* finds CHAT_STREAM_THROTTLE_MS or more elapsed since lastSyncTime makes chatStream
\* its text within the call; one that arrives earlier is left to a timer.
C14_LeadingOrDeferred ==
  [][IngestStep
     => IF now - LastSyncTime >= CHAT_STREAM_THROTTLE_MS
        THEN chatStream' = last'.arg
        ELSE Deferred]_vars

\* C14 amended: an accepted ingest that finds no timer scheduled for the session and
\* CHAT_STREAM_THROTTLE_MS or more elapsed since lastSyncTime makes chatStream its
\* text within the call (with the buffered segments when the text differs from
\* chatStream), sets lastSyncTime and schedules nothing. One that finds no timer
\* and less time elapsed is left to a new timer due at lastSyncTime +
\* CHAT_STREAM_THROTTLE_MS. One that finds a timer scheduled, overdue or not, is left
\* to that timer.
C14_LeadingUnlessScheduled ==
  [][IngestStep
     => IF PreOf(sessionKey) = "timer"
        THEN /\ Deferred
             /\ timers' = timers
        ELSE IF now - LastSyncTime >= CHAT_STREAM_THROTTLE_MS
        THEN /\ chatStream' = last'.arg
             /\ last'.arg # chatStream
                  => chatStreamSegments' = throttleStates'[sessionKey][1].segmentsBuffer
             /\ throttleStates'[sessionKey][1].lastSyncTime = now
             /\ timers' = timers
        ELSE /\ Deferred
             /\ \A tm \in HeldTimers :
                  tm.due = LastSyncTime + CHAT_STREAM_THROTTLE_MS
             /\ timers' = timers \cup HeldTimers]_vars

\* C14 witness: an ingest found the session's timer overdue, a full interval after
\* the last sync, and was left to it.
C14_Witness ==
  /\ last.op = "handleChatEvent"
  /\ last.arg = Some(Rep(2))
  /\ last.pre \in {"timer", "coalesced"}
  /\ chatStream # last.arg
  /\ now - CurTs.lastSyncTime >= CHAT_STREAM_THROTTLE_MS
  /\ \E tm \in TimersOf(timers, sessionKey) : tm.due <= now

\* The length of chatStream, 0 when it is null.
StreamLen(stream) == IF stream = None THEN 0 ELSE Len(stream[1])

\* C16 (no shrinkage through deltas): no delta event, assistant text or timer
\* callback makes chatStream shorter.
C16_NoShrink ==
  [][ThrottleStep => StreamLen(chatStream') >= StreamLen(chatStream)]_vars

\* C16 witness: a one-character delta was rejected after the two-character text had
\* been committed by a timer.
C16_Witness ==
  /\ last.op = "handleChatEvent"
  /\ last.ret = "delta"
  /\ last.arg = None
  /\ chatStream = Some(Rep(2))
  /\ hist.latest = Some(Rep(2))
  /\ hist.prev # None
----
----
\* The heartbeat beside a run that receives deltas. Of hist only the time of the
\* throttle's last commit (at) is observed here; it starts afresh with each run.
StallPayloads ==
  {pl \in DeltaPayloads({Rep(1), Rep(2)}, {None}) :
     pl.sessionKey = sessionKey /\ pl.runId = None}

\* Time passes while no heartbeat and no throttle timer is due. The clock is
\* observed at the multiples of CHAT_HEARTBEAT_INTERVAL_MS and, from such a
\* multiple, at the due time of the next timer; a timer set in between fires late,
\* at the next multiple.
NextBeat == (now \div CHAT_HEARTBEAT_INTERVAL_MS + 1) * CHAT_HEARTBEAT_INTERVAL_MS
AdvanceStall ==
  /\ now - lastHeartbeat < CHAT_HEARTBEAT_INTERVAL_MS
  /\ \A tm \in timers : tm.due > now
  /\ LET t == IF now % CHAT_HEARTBEAT_INTERVAL_MS = 0
              THEN MinOf({NextBeat} \cup {tm.due : tm \in timers})
              ELSE NextBeat
     IN /\ t <= MaxNowHB
        /\ now' = t
  /\ UNCHANGED <<hostVars, sessionKey, runVars, lastError, chatSending, throttleVars,
                 sendReqs, histReqs, lastHeartbeat>>

NextStall ==
  \/ \E rid \in {"A"} :
        /\ SendChatMessage(rid)
        /\ last' = Label("sendChatMessage", None, "void", "-")
        /\ reloads' = 0
        /\ hist' = NoHist
        /\ UNCHANGED <<accepted, burst, pendingSince, twVars, appVars,
                     appends>>
  \/ \E pl \in StallPayloads :
        /\ HandleChatEvent(Some(pl))
        /\ last' = Label("handleChatEvent",
                         IF Ingests(Some(pl)) THEN pl.message ELSE None,
                         handleChatEvent(Cur, Some(pl)).ret, "-")
        /\ hist' = [hist EXCEPT !.at = IF chatStream' # chatStream THEN Some(now) ELSE @]
        /\ UNCHANGED <<accepted, burst, pendingSince, reloads, twVars, appVars,
                     appends>>
  \/ \E tm \in timers :
        /\ TimerFire(tm)
        /\ last' = Label("timer", Some(tm.sk), "void", "-")
        /\ hist' = [hist EXCEPT !.at = IF chatStream' # chatStream THEN Some(now) ELSE @]
        /\ UNCHANGED <<accepted, burst, pendingSince, reloads, twVars, appVars,
                     appends>>
  \/ /\ HeartbeatTick
     /\ last' = Label("heartbeat", None,
                      IF histReqs' > histReqs THEN "reload" ELSE "void", "-")
     /\ reloads' = reloads + (histReqs' - histReqs)
     /\ UNCHANGED <<accepted, burst, pendingSince, hist, twVars, appVars,
                     appends>>
  \/ /\ AdvanceStall
     /\ last' = Label("advance", None, "void", "-")
     /\ UNCHANGED <<accepted, burst, pendingSince, reloads, hist, twVars, appVars,
                     appends>>

SpecStall == Init /\ [][NextStall]_vars

----
(***************************************************************************)
(* The typewriter directive (TypewriterDirective): one instance bound to   *)
(* one element. Its operators take and return the record w of its fields,  *)
(* the element's innerHTML and the pending animation frames. The element's *)
(* innerHTML is kept as the renderer that produced it and the arguments it *)
(* was given: toHtml(target, len) shows the slice escaped, with <br> for   *)
(* line breaks; renderMarkdownUncached(slice, withCursor) shows the slice  *)
(* parsed as Markdown, with the streaming cursor if asked for.             *)
(***************************************************************************)
TwCur ==
  [_target |-> _target, _revealed |-> _revealed, _element |-> _element, _raf |-> _raf,
   _lastMdRender |-> _lastMdRender, isConnected |-> isConnected,
   innerHTML |-> innerHTML, frames |-> frames]

TwInstall(w) ==
  /\ _target' = w._target
  /\ _revealed' = w._revealed
  /\ _element' = w._element
  /\ _raf' = w._raf
  /\ _lastMdRender' = w._lastMdRender
  /\ isConnected' = w.isConnected
  /\ innerHTML' = w.innerHTML
  /\ frames' = w.frames

Min(a, b) == IF a <= b THEN a ELSE b

\* String.prototype.startsWith and slice(0, len)
startsWith(text, prefix) ==
  Len(prefix) <= Len(text) /\ SubSeq(text, 1, Len(prefix)) = prefix
slice(text, len) == SubSeq(text, 1, Min(len, Len(text)))

\* n characters, all "a" but a "b" at position k.
Marked(n, k) == [i \in 1..n |-> IF i = k THEN "b" ELSE "a"]

\* The texts bound to the directive: the empty one, short and long ones that are
\* prefixes of each other, and two that differ from those at one position.
RevealTargets ==
  {Rep(n) : n \in {0, 7, 30, MaxTargetLen - 1, MaxTargetLen}}
    \cup {Marked(30, 20), Marked(7, 1)}

toHtml(text, len) == [renderer |-> "toHtml", slice |-> slice(text, len), withCursor |-> FALSE]

renderMarkdownUncached(markdown, withCursor) ==
  [renderer |-> "renderMarkdownUncached", slice |-> markdown, withCursor |-> withCursor]

\* Mutant: the loop never finds a difference.
commonPrefixLength_Limit(a, b) == Min(Len(a), Len(b))

commonPrefixLength(a, b) ==
  LET limit == Min(Len(a), Len(b))
      diff == {i \in 1..limit : a[i] # b[i]}
  IN IF diff = {} THEN limit ELSE MinOf(diff) - 1

\* requestAnimationFrame's return value: an id no pending frame has.
NewFrameId(fs) == CHOOSE i \in 1..(Cardinality(fs) + 1) : i \notin fs

cancelAnimationFrame(fs, id) == fs \ {id}

_scheduleFrame(w) ==
  LET id == NewFrameId(w.frames)
  IN [w EXCEPT !._raf = Some(id), !.frames = @ \cup {id}]

_flushCheap(w) ==
  IF w._element
  THEN [w EXCEPT !.innerHTML = Some(toHtml(w._target, w._revealed))]
  ELSE w

_flushMarkdown(w) ==
  IF w._element
  THEN [w EXCEPT !.innerHTML =
                    Some(renderMarkdownUncached(slice(w._target, w._revealed),
                                                w._revealed < Len(w._target))),
                 !._lastMdRender = now]
  ELSE w

\* Mutant: while the reveal is under way every render is the cheap one.
_flush_CheapWhileAnimating(w) ==
  IF ~w._element THEN w
  ELSE IF ~(w._revealed < Len(w._target)) THEN _flushMarkdown(w)
  ELSE _flushCheap(w)

_flush(w) ==
  IF ~w._element THEN w
  ELSE IF ~(w._revealed < Len(w._target)) THEN _flushMarkdown(w)
  ELSE IF now - w._lastMdRender >= MD_RENDER_INTERVAL_MS THEN _flushMarkdown(w)
  ELSE _flushCheap(w)

\* Mutant: the reveal starts again when text is appended.
clampRevealed_RestartOnAppend(prevTarget, text, revealed) ==
  LET r == IF startsWith(text, prevTarget) THEN 0
           ELSE IF startsWith(prevTarget, text) THEN Min(revealed, Len(text))
           ELSE Min(revealed, commonPrefixLength(prevTarget, text))
  IN Min(r, Len(text))

\* Mutant: the reveal starts again when the text is cut to a prefix.
clampRevealed_RestartOnTruncate(prevTarget, text, revealed) ==
  LET r == IF startsWith(text, prevTarget) THEN revealed
           ELSE IF startsWith(prevTarget, text) THEN 0
           ELSE Min(revealed, commonPrefixLength(prevTarget, text))
  IN Min(r, Len(text))

\* Mutant: the cursor is kept whatever the new target is.
clampRevealed_NoClamp(prevTarget, text, revealed) == revealed

\* The cursor after update's comparison of the old and the new target
\* (typewriter-directive update, the three cases and the clamp that follows).
clampRevealed(prevTarget, text, revealed) ==
  LET r == IF startsWith(text, prevTarget) THEN revealed
           ELSE IF startsWith(prevTarget, text) THEN Min(revealed, Len(text))
           ELSE Min(revealed, commonPrefixLength(prevTarget, text))
  IN Min(r, Len(text))

update(w, text) ==
  LET w1 == [w EXCEPT !._element = TRUE,
                      !._target = text,
                      !._revealed = clampRevealed(w._target, text, w._revealed)]
      w2 == _flush(w1)
      w3 == IF w2._raf = None /\ w2._revealed < Len(w2._target) /\ w2.isConnected
            THEN _scheduleFrame(w2) ELSE w2
  IN IF w3._revealed >= Len(w3._target) /\ w3._raf # None
     THEN [w3 EXCEPT !.frames = cancelAnimationFrame(@, w3._raf[1]), !._raf = None]
     ELSE w3

\* Mutant: the pending frame survives the disconnection.
disconnected_NoCancel(w) == [w EXCEPT !.isConnected = FALSE]

disconnected(w) ==
  LET w1 == [w EXCEPT !.isConnected = FALSE]
  IN IF w1._raf # None
     THEN [w1 EXCEPT !.frames = cancelAnimationFrame(@, w1._raf[1]), !._raf = None]
     ELSE w1

reconnected(w) ==
  LET w1 == [w EXCEPT !.isConnected = TRUE]
  IN IF w1._raf = None /\ w1._revealed < Len(w1._target)
     THEN _scheduleFrame(w1) ELSE w1

\* Mutant: the catch-up speed starts at the threshold itself.
speed_AtThreshold(remaining) ==
  IF remaining >= CATCH_UP_THRESHOLD
  THEN CHARS_PER_FRAME * CATCH_UP_MULTIPLIER
  ELSE CHARS_PER_FRAME

\* The characters one frame reveals, given the backlog.
speed(remaining) ==
  IF remaining > CATCH_UP_THRESHOLD
  THEN CHARS_PER_FRAME * CATCH_UP_MULTIPLIER
  ELSE CHARS_PER_FRAME

\* Mutant: a frame does not ask for the next one.
_tick_NoReschedule(w) ==
  IF ~w.isConnected \/ ~w._element \/ w._revealed >= Len(w._target) THEN w
  ELSE LET remaining == Len(w._target) - w._revealed
           w1 == [w EXCEPT !._revealed = Min(@ + speed(remaining), Len(w._target))]
       IN _flush(w1)

_tick(w) ==
  IF ~w.isConnected \/ ~w._element \/ w._revealed >= Len(w._target) THEN w
  ELSE LET remaining == Len(w._target) - w._revealed
           w1 == [w EXCEPT !._revealed = Min(@ + speed(remaining), Len(w._target))]
           w2 == _flush(w1)
       IN IF w2._revealed < Len(w2._target) THEN _scheduleFrame(w2) ELSE w2

\* The callback given to requestAnimationFrame.
frameCallback(w) == _tick([w EXCEPT !._raf = None])

\* Everything but the directive, its element, the clock and the label.
chatVars ==
  <<connected, tab, sessionKey, chatRunId, chatStream, chatStreamSegments,
    chatStreamStartedAt, lastError, chatSending, throttleStates, timers, sendReqs,
    histReqs, lastHeartbeat, accepted, burst, pendingSince, reloads, hist, appVars>>

\* Whether text is prev with something appended.
Extends(prev, text) == startsWith(text, prev) /\ text # prev

\* Lit renders the template: update(part, [text]).
Update(text) ==
  /\ TwInstall(update(TwCur, text))
  /\ UNCHANGED <<chatVars, now>>

\* The browser runs a pending animation frame callback.
Frame(id) ==
  /\ id \in frames
  /\ TwInstall(frameCallback([TwCur EXCEPT !.frames = @ \ {id}]))
  /\ UNCHANGED <<chatVars, now>>

\* Lit disconnects the part from the view tree, and connects it again.
Disconnected ==
  /\ isConnected
  /\ TwInstall(disconnected(TwCur))
  /\ UNCHANGED <<chatVars, now>>

Reconnected ==
  /\ ~isConnected
  /\ TwInstall(reconnected(TwCur))
  /\ UNCHANGED <<chatVars, now>>

AdvanceReveal ==
  /\ now + RevealStep <= MaxNowReveal
  /\ now' = now + RevealStep
  /\ UNCHANGED <<chatVars, twVars>>

\* The label of a step of SpecReveal: arg is the text bound (update) and pre is
\* the directive as the step found it.
NextReveal ==
  \/ \E text \in RevealTargets :
        /\ Update(text)
        /\ last' = Label("update", Some(text), "noChange", TwCur)
        /\ appends' = IF appends # None /\ Extends(_target, text)
                      THEN Some(Min(appends[1] + 1, 2)) ELSE None
  \/ \E id \in frames :
        /\ Frame(id)
        /\ last' = Label("frame", None, "void", TwCur)
        /\ UNCHANGED appends
  \/ /\ Disconnected
     /\ last' = Label("disconnected", None, "void", TwCur)
     /\ UNCHANGED appends
  \/ /\ Reconnected
     /\ last' = Label("reconnected", None, "void", TwCur)
     /\ UNCHANGED appends
  \/ /\ AdvanceReveal
     /\ last' = Label("advance", None, "void", TwCur)
     /\ UNCHANGED appends

SpecReveal == Init /\ [][NextReveal]_vars

\* C23 (reveal cursor bounds): whatever updates, frames, disconnections and
\* reconnections happened, 0 <= _revealed <= _target.length.
C23_CursorBounds ==
  /\ 0 <= _revealed
  /\ _revealed <= Len(_target)

\* C23 witness: a rewrite of a partly revealed text cut the cursor back to the
\* common prefix, which is shorter than the new target.
C23_Witness ==
  /\ last.op = "update"
  /\ last.pre._revealed > _revealed
  /\ _revealed > 0
  /\ _revealed < Len(_target)
  /\ ~startsWith(last.pre._target, _target)
  /\ ~startsWith(_target, last.pre._target)

UpdateStep == last'.op = "update"
NewText == last'.arg[1]

LongestCommonPrefix(a, b) ==
  CHOOSE n \in 0..Min(Len(a), Len(b)) :
     /\ SubSeq(a, 1, n) = SubSeq(b, 1, n)
     /\ \A m \in (n + 1)..Min(Len(a), Len(b)) : SubSeq(a, 1, m) # SubSeq(b, 1, m)

\* C26 (bind-time cursor rule): an update keeps _revealed when the new text starts
\* with the old target, cuts it to the length of the longest common prefix when
\* neither text starts with the other, and in every case (append, truncation,
\* rewrite) leaves the smaller of the old _revealed and the length of the longest
\* common prefix of the old target and the new text.
C26_BindCursorRule ==
  [][UpdateStep
       => /\ startsWith(NewText, _target) => _revealed' = _revealed
          /\ (~startsWith(NewText, _target) /\ ~startsWith(_target, NewText))
                => _revealed' = Min(_revealed, LongestCommonPrefix(_target, NewText))
          /\ _revealed' = Min(_revealed, LongestCommonPrefix(_target, NewText))]_vars

\* C26 witness: a fully revealed text was replaced by one that differs from it at
\* the first character, and the cursor went back to 0.
C26_Witness ==
  /\ last.op = "update"
  /\ ~startsWith(last.pre._target, _target)
  /\ ~startsWith(_target, last.pre._target)
  /\ last.pre._revealed = Len(last.pre._target)
  /\ LongestCommonPrefix(last.pre._target, _target) = 0
  /\ _revealed = 0

\* The browser runs every animation frame callback that stays pending.
\* The directive with the browser running every animation frame callback that
\* stays pending. The clock stands still, and the label keeps of the directive
\* only its cursor, its frame handle and the pending frames.
TerminateTargets == {Rep(0), Rep(7), Rep(30), Rep(MaxTargetLen)}

TwPre == [_revealed |-> _revealed, _raf |-> _raf, frames |-> frames,
          isConnected |-> isConnected]

FrameStep ==
  \E id \in frames :
     /\ Frame(id)
     /\ last' = Label("frame", None, "void", TwPre)
     /\ UNCHANGED appends

NextTerminate ==
  \/ \E text \in TerminateTargets :
        /\ Update(text)
        /\ last' = Label("update", Some(text), "noChange", TwPre)
        /\ UNCHANGED appends
  \/ FrameStep
  \/ /\ Disconnected
     /\ last' = Label("disconnected", None, "void", TwPre)
     /\ UNCHANGED appends
  \/ /\ Reconnected
     /\ last' = Label("reconnected", None, "void", TwPre)
     /\ UNCHANGED appends

SpecTerminate == Init /\ [][NextTerminate]_vars /\ WF_vars(FrameStep)

\* The reveal is over: the cursor is at the end, the element shows the whole target
\* and no frame is pending.
RevealDone ==
  /\ _revealed = Len(_target)
  /\ _element => innerHTML = Some(renderMarkdownUncached(_target, FALSE))
  /\ _raf = None
  /\ frames = {}

\* C27 (the reveal completes and stops): while _revealed < _target.length on a
\* connected directive exactly one frame is pending, the one _raf names; and if
\* from some point on the directive stays connected and is not updated any more,
\* then from some point on the cursor is at the end, the whole target is shown and
\* no frame is pending.
C27_RevealTerminates ==
  /\ []((isConnected /\ _revealed < Len(_target))
          => (_raf # None /\ frames = {_raf[1]}))
  /\ ((<>[]isConnected /\ <>[][last'.op # "update"]_vars) => <>[]RevealDone)

\* C27 witness: on a connected directive a frame, the only one pending, completed
\* the reveal of the longest text and left no frame pending.
C27_Witness ==
  /\ last.op = "frame"
  /\ last.pre.isConnected
  /\ last.pre.frames = {last.pre._raf[1]}
  /\ last.pre._revealed < Len(_target)
  /\ Len(_target) = MaxTargetLen
  /\ isConnected
  /\ RevealDone

\* The unrevealed backlog, and what a frame callback run now would add to the cursor.
Backlog == Len(_target) - _revealed
TickAdvance == frameCallback(TwCur)._revealed - _revealed

\* C28 (adaptive tick rate): a frame on a connected directive with backlog b > 0
\* adds min(b, 12) to _revealed when b <= 200 and exactly 48 when b > 200; this is
\* so of every frame that runs and of _tick applied to any state reached; applied
\* with b = 0 or on a disconnected directive _tick adds nothing.
C28_TickRate ==
  [][/\ last'.op = "frame"
          => _revealed' - _revealed = IF Backlog > 200 THEN 48 ELSE Min(Backlog, 12)
     /\ (isConnected /\ Backlog > 0 /\ Backlog <= 200) => TickAdvance = Min(Backlog, 12)
     /\ (isConnected /\ Backlog > 200) => TickAdvance = 48
     /\ (Backlog = 0 \/ ~isConnected) => TickAdvance = 0]_vars

\* C28 witness: a frame that found more than 200 characters unrevealed added 48,
\* and the next one will find 200 or fewer.
C28_Witness ==
  /\ last.op = "frame"
  /\ Len(_target) - last.pre._revealed > 200
  /\ last.pre._target = _target
  /\ _revealed = last.pre._revealed + 48
  /\ Backlog <= 200
  /\ isConnected

\* C29 (node lifecycle): a disconnection cancels the pending frame; while the
\* directive is disconnected no frame is pending, _raf is null, no step schedules
\* one and no step raises _revealed, updates of the target included; and a
\* reconnection schedules a frame, the one _raf then names, if and only if
\* _revealed < _target.length.
C29_Lifecycle ==
  [][/\ last'.op = "disconnected" => (frames' = {} /\ _raf' = None)
     /\ ~isConnected => (frames = {} /\ _raf = None)
     /\ (~isConnected /\ ~isConnected')
          => (frames' = {} /\ _raf' = None /\ _revealed' <= _revealed)
     /\ last'.op = "reconnected"
          => IF _revealed < Len(_target)
             THEN _raf' # None /\ frames' = {_raf'[1]}
             ELSE _raf' = None /\ frames' = {}]_vars

\* C29 witness: a directive that had no frame pending while disconnected was
\* reconnected, after two appending updates, with text left to reveal, and has one
\* frame pending; the cursor is where the frames before left it.
C29_Witness ==
  /\ last.op = "reconnected"
  /\ ~last.pre.isConnected
  /\ last.pre.frames = {}
  /\ appends = Some(2)
  /\ _revealed > 0
  /\ _revealed < Len(_target)
  /\ _raf # None
  /\ frames = {_raf[1]}

----
\* The streaming group of the chat view. Of the template renderStreamingGroup
\* returns, static is the texts of the bubbles rendered with toSanitizedMarkdownHtml,
\* in order, and target is the text given to the typewriter directive.
SegmentTexts == {Rep(1), Rep(2), <<"b">>}

SegmentsOfLen(n) == [1..n -> SegmentTexts]

\* The segments argument: absent, or an array of 0 to MaxSegments texts.
ViewSegments ==
  {None} \cup {Some(segs) : segs \in UNION {SegmentsOfLen(n) : n \in 0..MaxSegments}}

\* Mutant: one segment already counts as segments.
renderStreamingGroup_FromOne(text, segments) ==
  IF segments # None /\ Len(segments[1]) >= 1
  THEN [static |-> SubSeq(segments[1], 1, Len(segments[1]) - 1),
        target |-> segments[1][Len(segments[1])]]
  ELSE [static |-> <<>>, target |-> text]

renderStreamingGroup(text, segments) ==
  LET hasSegments == segments # None /\ Len(segments[1]) > 1
  IN IF ~hasSegments
     THEN [static |-> <<>>, target |-> text]
     ELSE [static |-> SubSeq(segments[1], 1, Len(segments[1]) - 1),
           target |-> segments[1][Len(segments[1])]]

\* The view renders the streaming group; the label keeps the arguments and the
\* template returned.
RenderStreamingGroup(text, segments) ==
  /\ last' = Label("renderStreamingGroup", [text |-> text, segments |-> segments],
                   renderStreamingGroup(text, segments), "-")
  /\ UNCHANGED <<chatVars, twVars, now, appends>>

NextView ==
  \E text \in Texts, segments \in ViewSegments : RenderStreamingGroup(text, segments)

SpecView == Init /\ [][NextView]_vars

\* C31 (segment model): given more than one segment the streaming group renders
\* every segment but the last as a static bubble, in order, and gives the last one
\* to the typewriter; given no segments, an empty array or a single segment it
\* renders no static bubble and gives the whole text to the typewriter.
C31_SegmentModel ==
  last.op = "renderStreamingGroup"
    => LET text == last.arg.text
           segs == IF last.arg.segments = None THEN <<>> ELSE last.arg.segments[1]
           n == Len(segs)
       IN IF n > 1
          THEN /\ Len(last.ret.static) = n - 1
               /\ \A i \in 1..(n - 1) : last.ret.static[i] = segs[i]
               /\ last.ret.target = segs[n]
          ELSE /\ last.ret.static = <<>>
               /\ last.ret.target = text

\* C31 witness: a text rendered with one segment that differs from it went whole
\* to the typewriter, with no static bubble.
C31_Witness ==
  /\ last.op = "renderStreamingGroup"
  /\ last.arg.segments # None
  /\ Len(last.arg.segments[1]) = 1
  /\ last.arg.segments[1][1] # last.arg.text
  /\ last.ret.target = last.arg.text
  /\ last.ret.static = <<>>
----
\* sendChatMessage as a call: with the host disconnected, or with a blank message
\* and no attachments, it returns null at once; otherwise it runs up to its await
\* of chat.send. blank tells whether message.trim() is empty.
SendArgs == [blank : BOOLEAN, hasAttachments : BOOLEAN]

sendRefused(a) == ~connected \/ (a.blank /\ ~a.hasAttachments)

\* Mutant: a blank message without attachments is sent like any other.
SendChatMessageCall_SendsBlank(a, rid) ==
  IF ~connected
  THEN UNCHANGED <<hostVars, sessionKey, runVars, lastError, chatSending, throttleVars,
                   now, sendReqs, histReqs, lastHeartbeat>>
  ELSE SendChatMessage(rid)

SendChatMessageCall(a, rid) ==
  IF sendRefused(a)
  THEN UNCHANGED <<hostVars, sessionKey, runVars, lastError, chatSending, throttleVars,
                   now, sendReqs, histReqs, lastHeartbeat>>
  ELSE SendChatMessage(rid)

SendPayloads ==
  {pl \in DeltaPayloads({Rep(1), Rep(2)}, {None}) \cup BarePayloads({"final"}) :
     pl.sessionKey = sessionKey /\ pl.runId = None}

\* The label of a call carries its arguments; its ret is "null" when the call
\* returned at once and "await" when it waits for chat.send. The steps after the
\* await carry no argument.
NextSend ==
  \/ \E a \in SendArgs, rid \in RunIds :
        /\ SendChatMessageCall(a, rid)
        /\ last' = Label("sendChatMessage", Some(a),
                         IF sendRefused(a) THEN "null" ELSE "await", "-")
        /\ UNCHANGED <<accepted, burst, pendingSince, reloads, hist, twVars, appVars,
                     appends>>
  \/ \E rid \in RunIds :
        /\ SendResolved(rid)
        /\ last' = Label("sendChatMessage", None, "runId", "-")
        /\ UNCHANGED <<accepted, burst, pendingSince, reloads, hist, twVars, appVars,
                     appends>>
  \/ \E rid \in RunIds :
        /\ SendRejected(rid)
        /\ last' = Label("sendChatMessage", None, "null", "-")
        /\ UNCHANGED <<accepted, burst, pendingSince, reloads, hist, twVars, appVars,
                     appends>>
  \/ \E pl \in SendPayloads :
        /\ HandleChatEvent(Some(pl))
        /\ last' = EventLabel(Some(pl))
        /\ UNCHANGED <<accepted, burst, pendingSince, reloads, hist, twVars, appVars,
                     appends>>
  \/ \E tm \in timers :
        /\ TimerFire(tm)
        /\ last' = Label("timer", Some(tm.sk), "void", "-")
        /\ UNCHANGED <<accepted, burst, pendingSince, reloads, hist, twVars, appVars,
                     appends>>
  \/ /\ Advance(MaxNow)
     /\ last' = Label("advance", None, "void", "-")
     /\ UNCHANGED <<accepted, burst, pendingSince, reloads, hist, twVars, appVars,
                     appends>>
  \/ \E c \in BOOLEAN :
        /\ SetConnected(c)
        /\ last' = Label("connected", None, "void", "-")
        /\ UNCHANGED <<accepted, burst, pendingSince, reloads, hist, twVars, appVars,
                     appends>>

SpecSend == Init /\ [][NextSend]_vars

\* C32 (run creation and send failure): a call of sendChatMessage on a connected
\* host with a non-blank message or with attachments sets chatRunId to an id no
\* request in flight has, chatStream to "", chatStreamSegments to null and
\* chatStreamStartedAt to Date.now(), and the chat.send request is in flight after
\* it; a call with the host disconnected, or blank without attachments, returns
\* null and changes nothing; and when chat.send fails the four run fields are null
\* and lastError is set.
C32_RunCreation ==
  [][/\ (last'.op = "sendChatMessage" /\ last'.arg # None)
          => IF connected /\ (~last'.arg[1].blank \/ last'.arg[1].hasAttachments)
             THEN /\ chatRunId' # None
                  /\ chatRunId'[1] \notin sendReqs
                  /\ sendReqs' = sendReqs \cup {chatRunId'[1]}
                  /\ chatStream' = Some(<<>>)
                  /\ chatStreamSegments' = None
                  /\ chatStreamStartedAt' = Some(DateNow)
                  /\ last'.ret = "await"
             ELSE /\ UNCHANGED <<runVars, lastError, chatSending, sendReqs>>
                  /\ last'.ret = "null"
     /\ (last'.op = "sendChatMessage" /\ last'.arg = None /\ last'.ret = "null")
          => /\ chatRunId' = None
             /\ chatStream' = None
             /\ chatStreamSegments' = None
             /\ chatStreamStartedAt' = None
             /\ lastError' # None]_vars

\* C32 witness: the chat.send of a run that had already shown text failed, and the
\* run fields are null with the error in lastError.
C32_Witness ==
  /\ last.op = "sendChatMessage"
  /\ last.arg = None
  /\ last.ret = "null"
  /\ chatRunId = None
  /\ chatStream = None
  /\ chatStreamStartedAt = None
  /\ lastError # None
  /\ throttleStates[sessionKey] # None
  /\ throttleStates[sessionKey][1].lastSyncTime > 0
----
\* The scheduling primitives may throw. window.setTimeout is the last statement
\* of scheduleChatStreamSync and requestAnimationFrame the only one of
\* _scheduleFrame, neither inside a try block: when the primitive throws, the
\* handle is not assigned, nothing is scheduled, and the exception leaves the
\* function and its callers (handleChatEvent; update; the frame callback).
\* The label of such a step has ret = "throws".

\* handleChatEvent(p) whose call of window.setTimeout throws.
HandleChatEventThrows(p) ==
  LET h == handleChatEvent(Cur, p)
      ts == TsOf(h, sessionKey)
  IN /\ h.timers # timers
     /\ Install([h EXCEPT !.timers = timers,
                          !.throttleStates[sessionKey] = Some([ts EXCEPT !.pendingSync = None])])
     /\ UNCHANGED <<hostVars, sessionKey, chatSending, now, sendReqs, histReqs,
                    lastHeartbeat>>

\* update(part, [text]) whose call of requestAnimationFrame throws.
UpdateThrows(text) ==
  LET w == update(TwCur, text)
  IN /\ _raf = None
     /\ w._raf # None
     /\ TwInstall([w EXCEPT !._raf = None, !.frames = frames])
     /\ UNCHANGED <<chatVars, now>>

\* A frame callback whose _tick calls requestAnimationFrame, which throws.
FrameThrows(id) ==
  LET w == frameCallback([TwCur EXCEPT !.frames = @ \ {id}])
  IN /\ id \in frames
     /\ w._raf # None
     /\ TwInstall([w EXCEPT !._raf = None, !.frames = frames \ {id}])
     /\ UNCHANGED <<chatVars, now>>

FaultyPayloads ==
  {pl \in DeltaPayloads({Rep(1), Rep(2)}, {None}) :
     pl.sessionKey = sessionKey /\ pl.runId = None}

FaultyTargets == {Rep(0), Rep(7), Rep(30)}

NextFaulty ==
  \/ \E pl \in FaultyPayloads :
        /\ HandleChatEvent(Some(pl))
        /\ last' = Label("handleChatEvent", Some(pl.message), handleChatEvent(Cur, Some(pl)).ret, "-")
        /\ UNCHANGED <<accepted, burst, pendingSince, reloads, hist, twVars, appVars,
                     appends>>
  \/ \E pl \in FaultyPayloads :
        /\ HandleChatEventThrows(Some(pl))
        /\ last' = Label("handleChatEvent", Some(pl.message), "throws", "-")
        /\ UNCHANGED <<accepted, burst, pendingSince, reloads, hist, twVars, appVars,
                     appends>>
  \/ \E tm \in timers :
        /\ TimerFire(tm)
        /\ last' = Label("timer", Some(tm.sk), "void", "-")
        /\ UNCHANGED <<accepted, burst, pendingSince, reloads, hist, twVars, appVars,
                     appends>>
  \/ /\ Advance(MaxNow)
     /\ last' = Label("advance", None, "void", "-")
     /\ UNCHANGED <<accepted, burst, pendingSince, reloads, hist, twVars, appVars,
                     appends>>
  \/ \E text \in FaultyTargets :
        /\ Update(text)
        /\ last' = Label("update", Some(text), "noChange", TwPre)
        /\ UNCHANGED appends
  \/ \E text \in FaultyTargets :
        /\ UpdateThrows(text)
        /\ last' = Label("update", Some(text), "throws", TwPre)
        /\ UNCHANGED appends
  \/ \E id \in frames :
        /\ Frame(id)
        /\ last' = Label("frame", None, "void", TwPre)
        /\ UNCHANGED appends
  \/ \E id \in frames :
        /\ FrameThrows(id)
        /\ last' = Label("frame", None, "throws", TwPre)
        /\ UNCHANGED appends

SpecFaulty == Init /\ [][NextFaulty]_vars

\* C33 (scheduling failures are contained): no ingest, update or frame ends by
\* throwing when the timer or frame primitive throws; no handle is kept for a
\* callback that was not scheduled; and a connected directive with text left to
\* reveal still has its frame pending.
C33_FailuresContained ==
  /\ last.ret # "throws"
  /\ \A sk \in Sessions :
        (throttleStates[sk] # None /\ throttleStates[sk][1].pendingSync # None)
          => \E tm \in timers : tm.id = throttleStates[sk][1].pendingSync[1]
  /\ _raf # None => _raf[1] \in frames
  /\ (isConnected /\ _revealed < Len(_target)) => frames # {}
----
\* C34 (stall means no updates): a heartbeat tick does not clear a run, nor start
\* a reload, when the throttle committed a delta of the run less than
\* CHAT_STREAM_TIMEOUT_MS ago.
C34_StallMeansNoUpdates ==
  [][(/\ last'.op = "heartbeat"
      /\ chatRunId # None
      /\ hist.at # None
      /\ now - hist.at[1] < CHAT_STREAM_TIMEOUT_MS)
       => (UNCHANGED runVars /\ histReqs' = histReqs)]_vars

----
\* A step of Spec by which a flush, a throttle timer callback or a final or aborted
\* event of the run puts a text into chatStream.
InstallStep ==
  /\ \/ last'.op \in {"timer", "flushChatStream"}
     \/ last'.op = "handleChatEvent" /\ last'.ret \in {"final", "aborted"}
  /\ chatStream' # chatStream
  /\ chatStream' # None

\* C35 (no stale commit across runs): a flush, a timer callback or the final or
\* aborted event of a run installs into chatStream only a text that was accepted
\* since the run state was last reset; accepted is None from sendChatMessage until
\* the run's first accepted ingest.
C35_NoStaleCommit ==
  [][InstallStep => (accepted # None /\ chatStream' = accepted)]_vars

----
\* An event step of SpecRouter that delivers, while no run is active, a delta of the
\* session shown whose text the length guard lets through.
LateDelta ==
  /\ EventStep
  /\ chatRunId = None
  /\ last'.arg[1].state = "delta"
  /\ last'.arg[1].sessionKey = sessionKey
  /\ last'.arg[1].message # None
  /\ acceptsText(Cur, last'.arg[1].message[1])

\* C36 as stated (committed text belongs to an active run): whenever chatStream is
\* a non-empty text, chatRunId is set.
C36_TextHasRun ==
  (chatStream # None /\ chatStream # Some(<<>>)) => chatRunId # None

\* C36 amended: an aborted or error event that the router lets through leaves
\* chatRunId and chatStream null, and a delta of the session that arrives while no
\* run is active is forwarded to the throttle all the same: its text is buffered, and
\* it is either chatStream after the call or left to a scheduled timer, with
\* chatRunId still null.
C36_LateDeltaApplied ==
  [][/\ (EventStep /\ last'.ret \in {"aborted", "error"})
          => (chatRunId' = None /\ chatStream' = None)
     /\ LateDelta
          => (/\ last'.ret = "delta"
              /\ chatRunId' = None
              /\ throttleStates'[sessionKey] # None
              /\ throttleStates'[sessionKey][1].buffer = last'.arg[1].message
              /\ \/ chatStream' = last'.arg[1].message
                 \/ HeldTimers # {})]_vars

\* C36 witness: a delta of run A that arrived with no run active was committed
\* within the call; chatStream is non-empty and chatRunId is null.
C36_Witness ==
  /\ last.op = "handleChatEvent"
  /\ last.arg # None
  /\ last.arg[1].state = "delta"
  /\ last.arg[1].runId = Some("A")
  /\ last.ret = "delta"
  /\ chatRunId = None
  /\ chatStream = last.arg[1].message
  /\ chatStream = Some(Rep(2))

----
\* C37 (text and segments are committed together): after an accepted delta event
\* that leaves no throttle timer scheduled for the session, chatStream is the
\* delta's text and chatStreamSegments the segments array the delta branch took
\* from the payload into segmentsBuffer (null when the payload has none).
C37_SegmentsWithText ==
  [][(/\ last'.op = "handleChatEvent"
      /\ last'.ret = "delta"
      /\ last'.arg # None
      /\ TimersOf(timers', sessionKey) = {})
       => (/\ chatStream' = last'.arg
           /\ chatStreamSegments' = throttleStates'[sessionKey][1].segmentsBuffer)]_vars

----
\* The send queue of the chat host (app-chat.ts). A queued message is the number
\* that stands for its generateUUID() id; its text is not blank. chatMessage,
\* chatAttachments and the tool stream are not modelled.

\* Mutant: a message is queued at the head.
enqueueChatMessage_AtHead(q, item) == <<item>> \o q

\* enqueueChatMessage for a message that is not blank: the queue after it.
enqueueChatMessage(q, item) == Append(q, item)

\* flushChatQueue after a send that failed: the queue with next put back.
putBack(q, next) == <<next>> \o q

\* The part of sendChatMessage before its await, as SendChatMessage(rid), started
\* by sendChatMessageNow for item (None for a message sent directly).
StartSend(rid, item, reqs, sends) ==
  /\ rid \notin reqs
  /\ Cardinality(reqs) < MaxInFlight
  /\ chatSending' = TRUE
  /\ lastError' = None
  /\ chatRunId' = Some(rid)
  /\ chatStream' = Some(<<>>)
  /\ chatStreamSegments' = None
  /\ chatStreamStartedAt' = Some(DateNow)
  /\ sendReqs' = reqs \cup {rid}
  /\ pendingSends' = sends \cup {[rid |-> rid, item |-> item]}

\* handleSendChat(host) with a message that is neither blank nor a stop command;
\* rid is the generateUUID() of sendChatMessage.
HandleSendChat(rid) ==
  /\ connected
  /\ IF isChatBusy
     THEN /\ Len(queued) < MaxQueued
          /\ chatQueue' = enqueueChatMessage(chatQueue, Len(queued) + 1)
          /\ queued' = Append(queued, Len(queued) + 1)
          /\ UNCHANGED <<runVars, lastError, chatSending, sendReqs, pendingSends>>
     ELSE /\ StartSend(rid, None, sendReqs, pendingSends)
          /\ UNCHANGED <<chatQueue, queued>>
  /\ UNCHANGED <<hostVars, sessionKey, throttleVars, now, histReqs, lastHeartbeat,
                 delivered, sessVars>>

\* flushChatQueue(host), also exported as flushChatQueueForEvent, up to its await.
FlushChatQueue(rid) ==
  /\ connected
  /\ ~isChatBusy
  /\ chatQueue # <<>>
  /\ chatQueue' = Tail(chatQueue)
  /\ StartSend(rid, Some(Head(chatQueue)), sendReqs, pendingSends)
  /\ UNCHANGED <<hostVars, sessionKey, throttleVars, now, histReqs, lastHeartbeat,
                 queued, delivered, sessVars>>

\* chat.send resolved: sendChatMessage returns the run id, sendChatMessageNow
\* flushes the queue when no run is active and returns true to its caller.
SendNowResolved(ps) ==
  /\ ps \in pendingSends
  /\ ps.rid \in sendReqs
  /\ delivered' = IF ps.item # None THEN Append(delivered, ps.item[1]) ELSE delivered
  /\ IF connected /\ chatRunId = None /\ chatQueue # <<>>
     THEN \E rid \in RunIds :
            /\ chatQueue' = Tail(chatQueue)
            /\ StartSend(rid, Some(Head(chatQueue)), sendReqs \ {ps.rid},
                         pendingSends \ {ps})
     ELSE /\ chatSending' = FALSE
          /\ sendReqs' = sendReqs \ {ps.rid}
          /\ pendingSends' = pendingSends \ {ps}
          /\ UNCHANGED <<runVars, lastError, chatQueue>>
  /\ UNCHANGED <<hostVars, sessionKey, throttleVars, now, histReqs, lastHeartbeat,
                 queued, sessVars>>

\* chat.send rejected: sendChatMessage clears the run and returns null,
\* sendChatMessageNow returns false, and flushChatQueue puts its message back.
SendNowRejected(ps) ==
  /\ ps \in pendingSends
  /\ ps.rid \in sendReqs
  /\ sendReqs' = sendReqs \ {ps.rid}
  /\ pendingSends' = pendingSends \ {ps}
  /\ chatRunId' = None
  /\ chatStream' = None
  /\ chatStreamSegments' = None
  /\ chatStreamStartedAt' = None
  /\ lastError' = Some("send error")
  /\ chatSending' = FALSE
  /\ chatQueue' = IF ps.item # None THEN putBack(chatQueue, ps.item[1]) ELSE chatQueue
  /\ UNCHANGED <<hostVars, sessionKey, throttleVars, now, histReqs, lastHeartbeat,
                 queued, delivered, sessVars>>

\* The events of SpecQueue: a delta with segments, a final and the end of a run by
\* aborted. The clock of SpecQueue stands still, so the delta is left to a timer
\* and committed by the flush of the final or aborted event.
QueuePayloads ==
  {pl \in DeltaPayloads({Rep(1)}, {Some(sg) : sg \in SegmentArrays})
            \cup BarePayloads({"final", "aborted"}) :
     pl.sessionKey = sessionKey /\ pl.runId = None}

\* What the queue observers and the session list do in a step that is none of theirs.
QueueFrame == UNCHANGED <<accepted, burst, pendingSince, reloads, hist, twVars, appends>>

NextQueue ==
  \/ \E rid \in RunIds :
        /\ HandleSendChat(rid)
        /\ last' = Label("handleSendChat",
                         IF isChatBusy THEN Some(Len(queued) + 1) ELSE None,
                         IF isChatBusy THEN "queued" ELSE "await", "-")
        /\ QueueFrame
  \/ \E rid \in RunIds :
        /\ FlushChatQueue(rid)
        /\ last' = Label("flushChatQueue", Some(Head(chatQueue)), "await", "-")
        /\ QueueFrame
  \/ \E ps \in pendingSends :
        /\ SendNowResolved(ps)
        /\ last' = Label("sendChatMessageNow", ps.item, "true",
                         IF chatQueue' # chatQueue THEN "flush" ELSE "-")
        /\ QueueFrame
  \/ \E ps \in pendingSends :
        /\ SendNowRejected(ps)
        /\ last' = Label("sendChatMessageNow", ps.item, "false", "-")
        /\ QueueFrame
  \/ \E pl \in QueuePayloads :
        /\ HandleChatEvent(Some(pl))
        /\ last' = EventLabel(Some(pl))
        /\ UNCHANGED <<accepted, burst, pendingSince, reloads, hist, twVars, appVars,
                       appends>>
  \/ \E c \in BOOLEAN :
        /\ SetConnected(c)
        /\ last' = Label("connected", None, "void", "-")
        /\ UNCHANGED <<accepted, burst, pendingSince, reloads, hist, twVars, appVars,
                       appends>>

SpecQueue == Init /\ [][NextQueue]_vars

\* switchSession(host, key) as the user may call it: with another key, with the
\* current key, or with a key that is empty once trimmed (""); the last two return
\* before anything is assigned.
SwitchKeys == Sessions \cup {""}
SwitchSessionCall(key) ==
  IF key = "" \/ key = sessionKey
  THEN UNCHANGED <<hostVars, sessionKey, runVars, lastError, chatSending, throttleVars,
                   now, sendReqs, histReqs, lastHeartbeat, appVars>>
  ELSE SwitchSession(key)

NextSwitchQueue ==
  \/ NextQueue
  \/ \E k \in SwitchKeys :
        /\ SwitchSessionCall(k)
        /\ last' = Label("switchSession", Some(k),
                         IF sessionKey' # sessionKey THEN "switched" ELSE "void",
                         Some(sessionKey))
        /\ QueueFrame
  \/ \E ok \in BOOLEAN :
        /\ HistoryLoaded(ok)
        /\ last' = Label("loadChatHistory", None, "void", "-")
        /\ UNCHANGED <<accepted, burst, pendingSince, reloads, hist, twVars, appVars,
                       appends>>

SpecSwitchQueue == Init /\ [][NextSwitchQueue]_vars

\* C38 (session switch resets the run): a switchSession that changes the session
\* leaves sessionKey the new key, chatRunId, chatStream, chatStreamSegments and
\* chatStreamStartedAt null and chatQueue empty; a switchSession with the current
\* key, an empty key or while disconnected leaves sessionKey and the four fields
\* as they were.
C38_SwitchResetsRun ==
  [][last'.op = "switchSession"
       => IF last'.arg[1] \notin {"", sessionKey} /\ connected
          THEN /\ sessionKey' = last'.arg[1]
               /\ chatRunId' = None
               /\ chatStream' = None
               /\ chatStreamSegments' = None
               /\ chatStreamStartedAt' = None
               /\ chatQueue' = <<>>
          ELSE UNCHANGED <<sessionKey, runVars>>]_vars

----
\* The queued messages whose send is awaiting its reply, and the queued message a
\* step starts to send.
InFlightItems == {ps.item[1] : ps \in {x \in pendingSends : x.item # None}}
InFlightQueued ==
  IF InFlightItems = {} THEN <<>> ELSE <<CHOOSE m \in InFlightItems : TRUE>>
StartedQueued == {ps \in pendingSends' \ pendingSends : ps.item # None}

----
\* The sessions controller (controllers/sessions.ts). A sessions.list result is a
\* number that stands for the list the gateway returned; sessReqs holds the methods
\* of the requests awaiting their reply.
ListResults == {1, 2, 3}

\* loadSessions(state) up to its await of sessions.list: the fields it leaves.
loadSessions(st) ==
  IF ~connected THEN st
  ELSE IF st.sessionsLoading THEN st
  ELSE [st EXCEPT !.sessionsLoading = TRUE,
                  !.sessionsError = None,
                  !.sessReqs = @ \cup {"sessions.list"}]

\* The fields of the sessions state loadSessions and deleteSession write.
SessCur ==
  [sessionsLoading |-> sessionsLoading, sessionsError |-> sessionsError,
   sessReqs |-> sessReqs]
SessInstall(st) ==
  /\ sessionsLoading' = st.sessionsLoading
  /\ sessionsError' = st.sessionsError
  /\ sessReqs' = st.sessReqs

\* Everything the sessions controller does not write, but the connection.
nonSessVars ==
  <<tab, sessionKey, runVars, lastError, chatSending, throttleVars, now, sendReqs,
    histReqs, lastHeartbeat, queueVars, twVars, accepted, burst, pendingSince, reloads,
    hist, appends>>

\* A call of loadSessions that is not deleteSession's.
LoadSessions ==
  /\ loadSessions(SessCur) # SessCur
  /\ SessInstall(loadSessions(SessCur))
  /\ UNCHANGED <<sessionsResult, connected, nonSessVars>>

\* loadSessions after sessions.list replied: res is the result (None when the reply
\* is undefined), ok is FALSE when the request was rejected.
ListReplied(ok, res) ==
  /\ "sessions.list" \in sessReqs
  /\ sessReqs' = sessReqs \ {"sessions.list"}
  /\ sessionsResult' = IF ok /\ res # None THEN res ELSE sessionsResult
  /\ sessionsError' = IF ok THEN sessionsError ELSE Some("list error")
  /\ sessionsLoading' = FALSE
  /\ UNCHANGED <<connected, nonSessVars>>

\* deleteSession(state, key) up to its await of sessions.delete; confirmed is what
\* window.confirm returned.
DeleteSession(confirmed) ==
  /\ connected
  /\ ~sessionsLoading
  /\ IF confirmed
     THEN /\ sessionsLoading' = TRUE
          /\ sessionsError' = None
          /\ sessReqs' = sessReqs \cup {"sessions.delete"}
     ELSE UNCHANGED <<sessionsLoading, sessionsError, sessReqs>>
  /\ UNCHANGED <<sessionsResult, connected, nonSessVars>>

\* deleteSession after sessions.delete replied: on success it awaits
\* loadSessions(state), on rejection it records the error; finally it resets
\* sessionsLoading. The flag is reset when the awaited loadSessions has returned,
\* which is at once unless it issued a request.
DeleteReplied(ok) ==
  /\ "sessions.delete" \in sessReqs
  /\ LET st == [SessCur EXCEPT !.sessReqs = @ \ {"sessions.delete"}]
         loaded == IF ok THEN loadSessions(st)
                   ELSE [st EXCEPT !.sessionsError = Some("delete error")]
     IN SessInstall(IF "sessions.list" \in loaded.sessReqs
                    THEN loaded
                    ELSE [loaded EXCEPT !.sessionsLoading = FALSE])
  /\ UNCHANGED <<sessionsResult, connected, nonSessVars>>

NextSessions ==
  \/ /\ LoadSessions
     /\ last' = Label("loadSessions", None, "await", "-")
  \/ \E ok \in BOOLEAN, res \in {None} \cup {Some(r) : r \in ListResults} :
        /\ ListReplied(ok, res)
        /\ last' = Label("loadSessions", IF ok THEN res ELSE None,
                         IF ok THEN "loaded" ELSE "failed", "-")
  \/ \E key \in Sessions, confirmed \in BOOLEAN :
        /\ DeleteSession(confirmed)
        /\ last' = Label("deleteSession", Some(key),
                         IF confirmed THEN "await" ELSE "declined", "-")
  \/ \E ok \in BOOLEAN :
        /\ DeleteReplied(ok)
        /\ last' = Label("deleteSession", None, IF ok THEN "deleted" ELSE "failed", "-")
  \/ \E c \in BOOLEAN :
        /\ SetConnected(c)
        /\ last' = Label("connected", None, "void", "-")
        /\ UNCHANGED <<accepted, burst, pendingSince, reloads, hist, twVars, appVars,
                       appends>>

SpecSessions == Init /\ [][NextSessions]_vars

\* C40 (delete then refresh): when sessions.delete has succeeded, deleteSession
\* issues a sessions.list request, whose result will replace sessionsResult; and
\* when deleteSession is done, after a success or a failure, sessionsLoading is
\* false unless that list request is still awaited.
C40_DeleteRefreshes ==
  [][(last'.op = "deleteSession" /\ last'.ret \in {"deleted", "failed"})
       => /\ last'.ret = "deleted" => "sessions.list" \in sessReqs'
          /\ "sessions.list" \notin sessReqs' => ~sessionsLoading']_vars

====
